---- MODULE Spec2Model ----
(***************************************************************************)
(* A model of the m3u-server ingestion / synchronisation pipeline          *)
(* (package m3u_server): the catalog tables, the filter routes, the        *)
(* scheduler's job registry, the State Synchronizer and the two refresh    *)
(* jobs.                                                                   *)
(*                                                                         *)
(* Text values (names, ids, patterns, urls) are sequences of one-character *)
(* strings, so that case folding, normalisation and regex search are       *)
(* computed character by character.  Python's None is the value None       *)
(* below, which no text can equal.                                         *)
(***************************************************************************)
EXTENDS Integers, Sequences, FiniteSets, TLC

VARIABLES
    channels,            \* table channels    (models.py Channel)
    urls,                \* table urls        (models.py Url)
    epg_data,            \* table epg_data    (models.py EpgData)
    filters,             \* table filters     (models.py Filter)
    m3u_sources,         \* table m3u_sources (models.py M3uSource)
    epg_sources,         \* table epg_sources (models.py EpgSource)
    jobs,                \* the scheduler's job registry (APScheduler job store)
    no_epg_rule_active,  \* config DISABLE_CHANNELS_WITHOUT_EPG
    now,                 \* the wall clock, in ticks
    m3u_feed,            \* what each M3U source url serves: a sequence of lines
    xmltv_feed,          \* what each EPG source url serves: an XMLTV document
    m3u_run,             \* the M3U refresh job: its position and its locals
    epg_run,             \* the EPG refresh job that ran last: its locals and outcome
    last,                \* the operation that completed last, and what it reported
    released,            \* channels a filter deletion or disabling stopped blocking
    running,             \* the executor: the job instances that are executing
    sync_runs,           \* Synchronizer runs between their reads and their commit
    workers              \* M3U refresh runs that worker threads execute side by side

vars == <<channels, urls, epg_data, filters, m3u_sources, epg_sources, jobs,
          no_epg_rule_active, now, m3u_feed, xmltv_feed, m3u_run, epg_run,
          last, released, running, sync_runs, workers>>

\* The state of the scheduler's worker threads.
exec_vars == <<running, sync_runs, workers>>

----------------------------------------------------------------------------
(* Bounds of the model.                                                    *)

\* Filter ids are capped: deleting and re-adding filters would otherwise
\* grow the autoincrement id forever.
MaxFilterId == 3

\* Refresh jobs started in one behaviour (each start advances the clock).
MaxRuns == 2

\* Entries (an EXTINF line and its url line) in one M3U body.
MaxEntries == 3

----------------------------------------------------------------------------
(* Text.                                                                   *)

None == <<"None">>

Truthy(s) == s # None /\ s # << >>

UpperCase == <<"A","B","C","D","E","F","G","H","I","J","K","L","M",
               "N","O","P","Q","R","S","T","U","V","W","X","Y","Z">>
LowerCase == <<"a","b","c","d","e","f","g","h","i","j","k","l","m",
               "n","o","p","q","r","s","t","u","v","w","x","y","z">>

\* str.lower() on one character.
LowerChar(c) ==
    IF \E i \in 1..Len(UpperCase) : UpperCase[i] = c
    THEN LowerCase[CHOOSE i \in 1..Len(UpperCase) : UpperCase[i] = c]
    ELSE c

Lower(s) == [i \in 1..Len(s) |-> LowerChar(s[i])]

\* re.compile(p, re.IGNORECASE).search(text) for the patterns of the model:
\* an optional leading ^ anchor followed by literal characters.
ReSearch(p, text) ==
    LET anchored == Len(p) > 0 /\ p[1] = "^"
        lit      == IF anchored THEN Tail(p) ELSE p
        MatchAt(i) ==
            /\ i + Len(lit) - 1 <= Len(text)
            /\ \A j \in 1..Len(lit) : LowerChar(lit[j]) = LowerChar(text[i + j - 1])
    IN  IF anchored THEN MatchAt(1)
        ELSE \E i \in 1..(Len(text) + 1) : MatchAt(i)

\* re.compile(p, re.IGNORECASE) returns (it raises re.error otherwise), for
\* the patterns of the model: every "(" is closed by a ")" that follows it
\* ("missing ), unterminated subpattern", "unbalanced parenthesis") and the
\* pattern does not begin with "*" ("nothing to repeat").
ReCompiles(p) ==
    LET Depth(i) == Cardinality({j \in 1..i : p[j] = "("})
                    - Cardinality({j \in 1..i : p[j] = ")"})
    IN  /\ \A i \in 1..Len(p) : Depth(i) >= 0
        /\ Depth(Len(p)) = 0
        /\ (Len(p) > 0 => p[1] # "*")

\* The largest element of a finite set of naturals (0 for the empty set).
SetMax(S) == IF S = {} THEN 0 ELSE CHOOSE x \in S : \A y \in S : y <= x

\* The id an INTEGER PRIMARY KEY row gets on insert: max(rowid) + 1.
NewId(rows) == SetMax({r.id : r \in rows}) + 1

\* The row of table rows with the given id.
RowOf(rows, id) == CHOOSE r \in rows : r.id = id

----------------------------------------------------------------------------
(* The catalog as one value, for the operators that transform it.          *)

DB == [channels |-> channels, urls |-> urls, epg_data |-> epg_data,
       filters |-> filters, m3u_sources |-> m3u_sources,
       epg_sources |-> epg_sources]

\* What an operation reports in last.
Done(op, arg, outcome, written) ==
    [op |-> op, arg |-> arg, outcome |-> outcome, written |-> written]

----------------------------------------------------------------------------
(* State Synchronizer: scheduler_jobs.py _synchronize_channel_states_logic *)

\* channels_with_epg: collected only when the rule is active.
ChannelsWithEpg(db, rule) ==
    IF rule THEN {e.channel_tvg_id : e \in {x \in db.epg_data : Truthy(x.channel_tvg_id)}}
    ELSE {}

\* A synchroniser that searches the name only.
IsBlockedByRegexNameOnly(db, ch) ==
    \E f \in db.filters : f.enabled /\ ReSearch(f.pattern, ch.name)

IsBlockedByRegex(db, ch) ==
    \E f \in db.filters :
        /\ f.enabled
        /\ \E text \in {ch.name, ch.category} : Truthy(text) /\ ReSearch(f.pattern, text)

IsBlockedByNoEpg(db, rule, ch) ==
    rule /\ (~Truthy(ch.tvg_id) \/ ch.tvg_id \notin ChannelsWithEpg(db, rule))

\* A synchroniser that leaves the no-EPG rule out of the computed value.
ShouldBeEnabledRegexOnly(db, rule, ch) == ~IsBlockedByRegex(db, ch)

ShouldBeEnabled(db, rule, ch) ==
    ~IsBlockedByRegex(db, ch) /\ ~IsBlockedByNoEpg(db, rule, ch)

ChannelsToDisable(db, rule) ==
    {ch.id : ch \in {c \in db.channels :
                        c.enabled # ShouldBeEnabled(db, rule, c)
                        /\ ~ShouldBeEnabled(db, rule, c)}}

\* A synchroniser that never re-enables a channel.
ChannelsToEnableNever(db, rule) == {}

ChannelsToEnable(db, rule) ==
    {ch.id : ch \in {c \in db.channels :
                        c.enabled # ShouldBeEnabled(db, rule, c)
                        /\ ShouldBeEnabled(db, rule, c)}}

\* A job that ends without the synchronisation.
SyncSkipped(db, rule) == db

\* compiled_filters raises re.error: an enabled filter's pattern does not
\* compile.  The except clause rolls back and logs.
CompileRaises(db) == \E f \in db.filters : f.enabled /\ ~ReCompiles(f.pattern)

\* The two bulk updates and the commit.
SynchronizeChannelStatesLogic(db, rule) ==
    LET off == ChannelsToDisable(db, rule)
        on  == ChannelsToEnable(db, rule)
    IN  IF CompileRaises(db) THEN db
        ELSE [db EXCEPT !.channels =
                {IF c.id \in off THEN [c EXCEPT !.enabled = FALSE]
                 ELSE IF c.id \in on THEN [c EXCEPT !.enabled = TRUE]
                 ELSE c : c \in db.channels}]

SyncWritten(db, rule) ==
    IF CompileRaises(db) THEN {}
    ELSE ChannelsToDisable(db, rule) \cup ChannelsToEnable(db, rule)

----------------------------------------------------------------------------
(* The job registry.  A job id is a kind and, for a per-source job, the    *)
(* source id (0 otherwise): f'm3u_refresh_{source_id}' is                  *)
(* [kind |-> "m3u_refresh", sid |-> source_id].                            *)

JobId(kind, sid) == [kind |-> kind, sid |-> sid]

Job(kind, sid, func, trigger, hours) ==
    [id |-> JobId(kind, sid), func |-> func, trigger |-> trigger, hours |-> hours]

\* A scheduler whose add_job keeps a job that has the same id.
AddJobBeside(js, j) == js \cup {j}

\* scheduler.add_job(..., replace_existing=True)
AddJob(js, j) == {x \in js : x.id # j.id} \cup {j}

\* __init__.py initialize_database_and_scheduler: the cron cleanup job.
DailyCleanupJob == Job("daily_cleanup_job", 0, "scheduled_cleanup_job", "cron", 0)

\* A route that submits no job.
TriggerNothing(js) == js

\* routes/filters.py trigger_apply_filters_job
TriggerApplyFiltersJob(js) ==
    AddJob(js, Job("manual_apply_all_filters_job", 0, "apply_all_filters_job", "date", 0))

\* routes/filters.py apply_no_epg_disable
TriggerNoEpgJob(js) ==
    AddJob(js, Job("manual_disable_no_epg_job", 0, "disable_channels_without_epg", "date", 0))

----------------------------------------------------------------------------
(* Texts the model draws its inputs from.                                  *)

NameFR   == <<"F","R",":","1">>
NameBbc  == <<"B","b","c">>
NameX    == <<"X">>
CatFr    == <<"f","r",":","c">>
TvgA     == <<"a">>
TvgB     == <<"b">>
Url1     == <<"u","1">>
Url2     == <<"u","2">>
PatFR    == <<"^","F","R",":">>
PatBbc   == <<"b","b","c">>

Patterns == {PatFR, PatBbc}

\* A row whose enabled column defaults to false.
ChannelDisabledByDefault(id, name, category, tvg_id, tvg_name, tvg_logo, channel_num, enabled, last_seen) ==
    [id |-> id, name |-> name, category |-> category, tvg_id |-> tvg_id,
     tvg_name |-> tvg_name, tvg_logo |-> tvg_logo, channel_num |-> channel_num,
     enabled |-> FALSE, last_seen |-> last_seen]

Channel(id, name, category, tvg_id, tvg_name, tvg_logo, channel_num, enabled, last_seen) ==
    [id |-> id, name |-> name, category |-> category, tvg_id |-> tvg_id,
     tvg_name |-> tvg_name, tvg_logo |-> tvg_logo, channel_num |-> channel_num,
     enabled |-> enabled, last_seen |-> last_seen]

UrlRow(id, url, channel_id, last_seen) ==
    [id |-> id, url |-> url, channel_id |-> channel_id, last_seen |-> last_seen]

EpgRow(id, channel_tvg_id, title, start_time, end_time) ==
    [id |-> id, channel_tvg_id |-> channel_tvg_id, title |-> title,
     start_time |-> start_time, end_time |-> end_time]

\* channel_num is an integer column: NULL is modelled as -1 (tvg-chno is
\* accepted only when it is all digits, so no stored number is negative).
NoNum == -1

NoLast == Done("init", 0, "none", {})

EmptyDB == [channels |-> {}, urls |-> {}, epg_data |-> {}, filters |-> {},
            m3u_sources |-> {}, epg_sources |-> {}]

\* No refresh job has run yet.
NoRun == [phase |-> "idle", source_id |-> 0, fetch_ok |-> FALSE, parsed |-> << >>,
          next |-> 0, start_time |-> 0, synced |-> FALSE, repeat |-> FALSE,
          pre |-> EmptyDB, pre_jobs |-> {}]

\* No EPG refresh job has run yet.
NoEpgRun == [phase |-> "idle", source_id |-> 0, fetch_ok |-> FALSE,
             outcome |-> "none", mapped |-> {}, start_time |-> 0,
             synced |-> FALSE, pre |-> EmptyDB, pre_jobs |-> {}]

\* No worker thread of the scheduler is executing a job.
\* The two jobs that refresh one M3U source: f'm3u_refresh_{id}' and
\* f'manual_m3u_refresh_{id}'.  Neither is running.
RefreshKinds == {"m3u_refresh", "manual_m3u_refresh"}
NoWorker == [phase |-> "idle", source_id |-> 0, parsed |-> << >>, next |-> 1,
             start_time |-> 0, reading |-> FALSE, seen |-> EmptyDB]
NoWorkers == [k \in RefreshKinds |-> NoWorker]

NoSyncRuns == [runs |-> {}, started |-> 0, last_read |-> EmptyDB]

NoJobExecuting ==
    /\ running = {}
    /\ sync_runs = NoSyncRuns
    /\ workers = NoWorkers

----------------------------------------------------------------------------
(* Filter routes: routes/filters.py                                        *)

\* A route that saves the pattern without compiling it.
manage_filters_unvalidated(pattern, enabled) ==
    /\ NewId(filters) <= MaxFilterId
    /\ IF \E f \in filters : f.pattern = pattern
       THEN /\ UNCHANGED <<filters, jobs>>
            /\ last' = Done("manage_filters", pattern, "error", {})
       ELSE /\ filters' = filters \cup
                 {[id |-> NewId(filters), pattern |-> pattern, enabled |-> enabled]}
            /\ jobs' = IF enabled THEN TriggerApplyFiltersJob(jobs) ELSE jobs
            /\ last' = Done("manage_filters", pattern,
                            IF enabled THEN "enabled" ELSE "disabled", {})
    /\ UNCHANGED <<channels, urls, epg_data, m3u_sources, epg_sources,
                   no_epg_rule_active, now, m3u_feed, xmltv_feed, released,
                   exec_vars, epg_run, m3u_run>>

\* manage_filters, POST of a valid form.  A pattern that does not compile
\* raises re.error before the row is built: nothing is added.  A pattern
\* already stored violates the unique column: the commit fails and is
\* rolled back.
manage_filters(pattern, enabled) ==
    /\ NewId(filters) <= MaxFilterId
    /\ IF ~ReCompiles(pattern)
       THEN /\ UNCHANGED <<filters, jobs>>
            /\ last' = Done("manage_filters", pattern, "invalid", {})
       ELSE IF \E f \in filters : f.pattern = pattern
       THEN /\ UNCHANGED <<filters, jobs>>
            /\ last' = Done("manage_filters", pattern, "error", {})
       ELSE /\ filters' = filters \cup
                 {[id |-> NewId(filters), pattern |-> pattern, enabled |-> enabled]}
            /\ jobs' = IF enabled THEN TriggerApplyFiltersJob(jobs) ELSE jobs
            /\ last' = Done("manage_filters", pattern,
                            IF enabled THEN "enabled" ELSE "disabled", {})
    /\ UNCHANGED <<channels, urls, epg_data, m3u_sources, epg_sources,
                   no_epg_rule_active, now, m3u_feed, xmltv_feed, released,
                   exec_vars, epg_run, m3u_run>>

\* The disabled channels that the enabled filter f blocks and no other
\* enabled filter does (history: the code keeps no such record).
OnlyBlockedBy(f) ==
    {c.id : c \in {x \in channels :
        /\ ~x.enabled
        /\ f.enabled
        /\ IsBlockedByRegex([DB EXCEPT !.filters = {f}], x)
        /\ ~IsBlockedByRegex([DB EXCEPT !.filters = filters \ {f}], x)}}

\* The record of the released channels: a filter route adds the channels it
\* released, a Synchronizer run marks the ones it found waiting.
\* The record is kept only where a specification switches it on.
Release(rel, ids) ==
    IF ~rel.recording THEN rel
    ELSE [rel EXCEPT !.rows = {r \in @ : ~r.synced /\ r.id \notin ids}
                               \cup {[id |-> i, synced |-> FALSE] : i \in ids}]

Visit(rel) ==
    [rel EXCEPT !.rows = {[r EXCEPT !.synced = TRUE] : r \in {x \in @ : ~x.synced}}]

NotRecorded == [recording |-> FALSE, rows |-> {}]

delete_filter(filter_id) ==
    /\ \E f \in filters : f.id = filter_id
    /\ filters' = {f \in filters : f.id # filter_id}
    /\ released' = Release(released, OnlyBlockedBy(RowOf(filters, filter_id)))
    /\ last' = Done("delete_filter", filter_id, "deleted", {})
    /\ UNCHANGED <<channels, urls, epg_data, m3u_sources, epg_sources, jobs,
                   no_epg_rule_active, now, m3u_feed, xmltv_feed, exec_vars,
                   epg_run, m3u_run>>

toggle_filter(filter_id) ==
    /\ \E f \in filters : f.id = filter_id
    /\ LET f == CHOOSE x \in filters : x.id = filter_id
           g == [f EXCEPT !.enabled = ~f.enabled]
       IN  /\ filters' = (filters \ {f}) \cup {g}
           /\ jobs' = IF g.enabled THEN TriggerApplyFiltersJob(jobs) ELSE jobs
           /\ released' = Release(released, OnlyBlockedBy(f))
           /\ last' = Done("toggle_filter", filter_id,
                           IF g.enabled THEN "enabled" ELSE "disabled", {})
    /\ UNCHANGED <<channels, urls, epg_data, m3u_sources, epg_sources,
                   no_epg_rule_active, now, m3u_feed, xmltv_feed, exec_vars,
                   epg_run, m3u_run>>

apply_all_filters ==
    /\ jobs' = TriggerApplyFiltersJob(jobs)
    /\ last' = Done("apply_all_filters", 0, "triggered", {})
    /\ UNCHANGED <<channels, urls, epg_data, filters, m3u_sources, epg_sources,
                   no_epg_rule_active, now, m3u_feed, xmltv_feed, released,
                   exec_vars, epg_run, m3u_run>>

apply_no_epg_disable ==
    /\ jobs' = TriggerNoEpgJob(jobs)
    /\ last' = Done("apply_no_epg_disable", 0, "triggered", {})
    /\ UNCHANGED <<channels, urls, epg_data, filters, m3u_sources, epg_sources,
                   no_epg_rule_active, now, m3u_feed, xmltv_feed, released,
                   exec_vars, epg_run, m3u_run>>

----------------------------------------------------------------------------
(* Channel routes: routes/channels.py                                      *)

toggle_channel(channel_id) ==
    /\ \E c \in channels : c.id = channel_id
    /\ channels' = {IF c.id = channel_id THEN [c EXCEPT !.enabled = ~c.enabled] ELSE c
                    : c \in channels}
    /\ last' = Done("toggle_channel", channel_id, "toggled", {})
    /\ UNCHANGED <<urls, epg_data, filters, m3u_sources, epg_sources, jobs,
                   no_epg_rule_active, now, m3u_feed, xmltv_feed, released,
                   exec_vars, epg_run, m3u_run>>

----------------------------------------------------------------------------
(* The scheduler runs a pending one-shot ('date') job: the job leaves the  *)
(* registry and its function runs.  apply_all_filters_job and              *)
(* disable_channels_without_epg both call synchronize_channel_states.      *)

synchronize_channel_states(j) ==
    /\ j \in jobs
    /\ j.trigger = "date"
    /\ j.func \in {"apply_all_filters_job", "disable_channels_without_epg"}
    /\ jobs' = jobs \ {j}
    /\ channels' = SynchronizeChannelStatesLogic(DB, no_epg_rule_active).channels
    /\ released' = Visit(released)
    /\ last' = Done("synchronize_channel_states", j.id.kind,
                    IF CompileRaises(DB) THEN "error" ELSE "done",
                    SyncWritten(DB, no_epg_rule_active))
    /\ UNCHANGED <<urls, epg_data, filters, m3u_sources, epg_sources,
                   no_epg_rule_active, now, m3u_feed, xmltv_feed, exec_vars,
                   epg_run, m3u_run>>

----------------------------------------------------------------------------
(* M3U parser: scheduler_jobs.py refresh_single_m3u_source, lines 178-216. *)
(*                                                                         *)
(* A body is a sequence of lines.  A line is, after strip():               *)
(*   "header"    it starts with #EXTM3U; text is the whitespace that was   *)
(*               in front of it                                            *)
(*   "extinf"    it starts with #EXTINF: and the regex matches; attrs are  *)
(*               its attributes (lower-cased, '-' to '_') and display name *)
(*   "badextinf" it starts with #EXTINF: and the regex does not match      *)
(*   "comment"   any other line starting with #                            *)
(*   "blank"     empty                                                     *)
(*   "url"       anything else: text is the stream url                     *)

Attrs(tvg_id, tvg_name, display_name, group_title, tvg_logo, tvg_chno) ==
    [tvg_id |-> tvg_id, tvg_name |-> tvg_name, display_name |-> display_name,
     group_title |-> group_title, tvg_logo |-> tvg_logo, tvg_chno |-> tvg_chno]

NoAttrs == Attrs(None, None, None, None, None, None)

Line(kind, attrs, text) == [kind |-> kind, attrs |-> attrs, text |-> text]

HeaderLine  == Line("header", NoAttrs, << >>)
IndentedHeaderLine == Line("header", NoAttrs, <<" ">>)
CommentLine == Line("comment", NoAttrs, << >>)
BlankLine   == Line("blank", NoAttrs, << >>)
BadExtInf   == Line("badextinf", NoAttrs, << >>)
ExtInf(a)   == Line("extinf", a, << >>)
UrlLine(u)  == Line("url", NoAttrs, u)

\* A parser that accepts any body.
AnyHeader(lines) == TRUE

\* not lines or not lines[0].strip().startswith('#EXTM3U')  => invalid
HasM3UHeader(lines) == Len(lines) > 0 /\ lines[1].kind = "header"

\* current_extinf_data.get('tvg_name') or current_extinf_data.get('display_name')
ResolvedName(a) == IF Truthy(a.tvg_name) THEN a.tvg_name ELSE a.display_name

\* channel_key = tvg_id if tvg_id else channel_name
ChannelKey(a) == IF Truthy(a.tvg_id) THEN a.tvg_id ELSE ResolvedName(a)

KeyIndex(parsed, key) ==
    IF \E i \in 1..Len(parsed) : parsed[i].key = key
    THEN CHOOSE i \in 1..Len(parsed) : parsed[i].key = key
    ELSE 0

\* A parser that keeps only the first url of a key.
AddUrlFirstOnly(parsed, a, url) ==
    LET k == ChannelKey(a)
        i == KeyIndex(parsed, k)
    IN  IF i = 0 THEN Append(parsed, [key |-> k, attrs |-> a, urls |-> {url}])
        ELSE parsed

\* parsed_channels[channel_key]['urls'].add(stream_url), the item being
\* created with the attributes of the key's first entry.
AddUrl(parsed, a, url) ==
    LET k == ChannelKey(a)
        i == KeyIndex(parsed, k)
    IN  IF i = 0 THEN Append(parsed, [key |-> k, attrs |-> a, urls |-> {url}])
        ELSE [parsed EXCEPT ![i].urls = @ \cup {url}]

\* A parser that keeps the EXTINF data after a url line has used it.
RECURSIVE ParseLinesKeeping(_, _, _, _)
ParseLinesKeeping(lines, i, parsed, cur) ==
    IF i > Len(lines) THEN parsed
    ELSE LET ln == lines[i] IN
         IF ln.kind = "blank" THEN ParseLinesKeeping(lines, i + 1, parsed, cur)
         ELSE IF ln.kind = "extinf" THEN ParseLinesKeeping(lines, i + 1, parsed, ln.attrs)
         ELSE IF ln.kind = "badextinf" THEN ParseLinesKeeping(lines, i + 1, parsed, NoAttrs)
         ELSE IF cur # NoAttrs /\ ln.kind = "url"
              THEN IF ~Truthy(ResolvedName(cur))
                   THEN ParseLinesKeeping(lines, i + 1, parsed, NoAttrs)
                   ELSE ParseLinesKeeping(lines, i + 1, AddUrl(parsed, cur, ln.text), cur)
         ELSE ParseLinesKeeping(lines, i + 1, parsed, cur)

\* The loop over the lines: parsed is parsed_channels in insertion order,
\* cur is current_extinf_data (NoAttrs for None).
RECURSIVE ParseLines(_, _, _, _)
ParseLines(lines, i, parsed, cur) ==
    IF i > Len(lines) THEN parsed
    ELSE LET ln == lines[i] IN
         IF ln.kind = "blank" THEN ParseLines(lines, i + 1, parsed, cur)
         ELSE IF ln.kind = "extinf" THEN ParseLines(lines, i + 1, parsed, ln.attrs)
         ELSE IF ln.kind = "badextinf" THEN ParseLines(lines, i + 1, parsed, NoAttrs)
         ELSE IF cur # NoAttrs /\ ln.kind = "url"
              THEN IF ~Truthy(ResolvedName(cur))
                   THEN ParseLines(lines, i + 1, parsed, NoAttrs)
                   ELSE ParseLines(lines, i + 1, AddUrl(parsed, cur, ln.text), NoAttrs)
         ELSE ParseLines(lines, i + 1, parsed, cur)

ParseM3U(lines) == ParseLines(lines, 1, << >>, NoAttrs)

----------------------------------------------------------------------------
(* M3U reconciliation: refresh_single_m3u_source, lines 220-288.           *)

\* The keys of one batch (scheduler_jobs.py has batch_size = 500).
BatchSize == 2

\* str.isdigit() and int() on the digits of the model.
Digits == <<"0","1","2","3","4","5","6","7","8","9">>
IsDigitText(s) ==
    Truthy(s) /\ \A i \in 1..Len(s) : \E d \in 1..Len(Digits) : Digits[d] = s[i]
RECURSIVE ToInt(_)
ToInt(s) ==
    IF Len(s) = 0 THEN 0
    ELSE 10 * ToInt(SubSeq(s, 1, Len(s) - 1))
         + ((CHOOSE d \in 1..Len(Digits) : Digits[d] = s[Len(s)]) - 1)

ChannelNum(a) == IF IsDigitText(a.tvg_chno) THEN ToInt(a.tvg_chno) ELSE NoNum

\* {key: row for row in rows}: of the rows with one key the last one the
\* query returned stays.  rank[id] is the row's place in the result.
\* key[row] is the key the comprehension computes for the row.
DictBy(rows, rank, key) ==
    [k \in {key[c] : c \in rows} |->
        (CHOOSE c \in rows :
            /\ key[c] = k
            /\ \A d \in rows : key[d] = k => rank[d.id] <= rank[c.id]).id]

\* dict.get(k): the channel id, or 0.
Get(dict, k) == IF k \in DOMAIN dict THEN dict[k] ELSE 0

\* The Url rows to insert for the urls not in the channel's loaded collection,
\* ids in the order of insertion.
RECURSIVE InsertUrls(_, _, _, _)
InsertUrls(rows, todo, channel_id, t) ==
    IF todo = {} THEN rows
    ELSE LET u == CHOOSE x \in todo : TRUE
         IN  InsertUrls(rows \cup {UrlRow(NewId(rows), u, channel_id, t)},
                        todo \ {u}, channel_id, t)

\* channel.urls as the session sees it: for a row of possible_matches the
\* collection selectinload filled when the batch's query ran, for a channel
\* created in this batch the (empty) collection loaded on first use.  Url
\* rows added by channel_id do not enter a loaded collection.
Loaded(st, cid) == IF cid \in DOMAIN st.loaded THEN st.loaded[cid] ELSE {}

\* The body of the loop over a batch's keys, lines 235-278.
ProcessItem(st, item, t) ==
    LET a    == item.attrs
        tvg  == a.tvg_id
        name == ResolvedName(a)
        num  == ChannelNum(a)
        byT  == IF Truthy(tvg) THEN Get(st.by_tvg, tvg) ELSE 0
        hit  == IF byT # 0 THEN byT ELSE Get(st.by_name, name)
        cid  == IF hit # 0 THEN hit ELSE NewId(st.db.channels)
        old  == RowOf(st.db.channels, hit)
        row  == IF hit = 0
                THEN Channel(cid, name, a.group_title, tvg,
                             IF a.tvg_name = None THEN name ELSE a.tvg_name,
                             a.tvg_logo, num, TRUE, t)
                ELSE [old EXCEPT
                        !.name = name,
                        !.tvg_logo = IF Truthy(a.tvg_logo) THEN a.tvg_logo ELSE @,
                        !.category = IF Truthy(a.group_title) THEN a.group_title ELSE @,
                        !.channel_num = IF num # NoNum THEN num ELSE @,
                        !.tvg_id = IF Truthy(tvg) /\ ~Truthy(@) THEN tvg ELSE @,
                        !.last_seen = t]
        chans == {c \in st.db.channels : c.id # cid} \cup {row}
        coll  == Loaded(st, cid)
        existing_urls == {u.url : u \in {x \in st.db.urls : x.id \in coll}}
        touched == {IF u.id \in coll /\ u.url \in item.urls
                    THEN [u EXCEPT !.last_seen = t] ELSE u : u \in st.db.urls}
    IN  [db      |-> [st.db EXCEPT
                        !.channels = chans,
                        !.urls = InsertUrls(touched, item.urls \ existing_urls, cid, t)],
         by_tvg  |-> IF hit = 0 /\ Truthy(tvg) THEN (tvg :> cid) @@ st.by_tvg
                     ELSE st.by_tvg,
         by_name |-> IF hit = 0 THEN (name :> cid) @@ st.by_name ELSE st.by_name,
         loaded  |-> IF cid \in DOMAIN st.loaded THEN st.loaded
                     ELSE (cid :> {}) @@ st.loaded]

RECURSIVE ProcessItems(_, _, _, _, _)
ProcessItems(st, parsed, i, hi, t) ==
    IF i > hi \/ i > Len(parsed) THEN st
    ELSE ProcessItems(ProcessItem(st, parsed[i], t), parsed, i + 1, hi, t)

\* possible_matches: tvg_id IN batch_keys OR name IN batch_keys
PossibleMatches(db, batch_keys) ==
    {c \in db.channels : c.tvg_id \in batch_keys \/ c.name \in batch_keys}

\* One batch, keys lo .. lo + BatchSize - 1, and its commit.
ProcessBatch(db, parsed, lo, rank, t) ==
    LET hi == lo + BatchSize - 1
        batch_keys == {parsed[i].key : i \in {j \in lo..hi : j <= Len(parsed)}}
        possible == PossibleMatches(db, batch_keys)
        st0 == [db      |-> db,
                by_tvg  |-> DictBy({c \in possible : Truthy(c.tvg_id)}, rank,
                                   [c \in possible |-> c.tvg_id]),
                by_name |-> DictBy(possible, rank, [c \in possible |-> c.name]),
                loaded  |-> [cid \in {c.id : c \in possible} |->
                                {u.id : u \in {x \in db.urls : x.channel_id = cid}}]]
    IN  ProcessItems(st0, parsed, lo, hi, t).db

\* source.last_checked = start_time, when the source still exists
SetLastChecked(sources, sid, t) ==
    {IF s.id = sid THEN [s EXCEPT !.last_checked = t] ELSE s : s \in sources}

----------------------------------------------------------------------------
(* The M3U refresh job, refresh_single_m3u_source(source_id, source_url),  *)
(* in steps: the fetch, header check and parse; each batch with its        *)
(* commit; the last_checked update and the State Synchronizer run.         *)

NoTime == -1

Source(id, url, enabled, hours, last_checked) ==
    [id |-> id, url |-> url, enabled |-> enabled,
     refresh_interval_hours |-> hours, last_checked |-> last_checked]

NoRunInProgress == m3u_run.phase \in {"idle", "aborted", "done", "failed"}

\* A job that stamps last_checked before it returns on a failed fetch.
AfterDownloadFailedStamped(db, sid, t) ==
    [db EXCEPT !.m3u_sources = SetLastChecked(db.m3u_sources, sid, t)]

\* except requests.RequestException: log and return
AfterDownloadFailed(db, sid, t) == db

refresh_m3u_start(src, fetch_ok) ==
    /\ NoRunInProgress
    /\ now < MaxRuns
    /\ now' = now + 1
    /\ LET lines == m3u_feed[src.url]
           run   == [phase |-> "aborted", source_id |-> src.id, fetch_ok |-> fetch_ok,
                     parsed |-> << >>, next |-> 1, start_time |-> now + 1,
                     synced |-> FALSE,
                     repeat |-> (m3u_run.phase = "done" /\ m3u_run.source_id = src.id),
                     pre |-> DB, pre_jobs |-> jobs]
       IN  IF ~fetch_ok
           THEN /\ m3u_run' = run
                /\ m3u_sources' = AfterDownloadFailed(DB, src.id, now + 1).m3u_sources
                /\ last' = Done("refresh_single_m3u_source", src.id, "download_failed", {})
           ELSE IF ~HasM3UHeader(lines)
           THEN /\ m3u_run' = run
                /\ UNCHANGED m3u_sources
                /\ last' = Done("refresh_single_m3u_source", src.id, "invalid_header", {})
           ELSE /\ m3u_run' = [run EXCEPT !.phase = "batches", !.parsed = ParseM3U(lines)]
                /\ UNCHANGED <<m3u_sources, last>>
    /\ UNCHANGED <<channels, urls, epg_data, filters, epg_sources, jobs,
                   no_epg_rule_active, m3u_feed, xmltv_feed, released, exec_vars, epg_run>>

\* A batch that also deletes the Url rows the run has not seen.
refresh_m3u_batch_pruning(rank) ==
    /\ m3u_run.phase = "batches"
    /\ m3u_run.next <= Len(m3u_run.parsed)
    /\ LET db == ProcessBatch(DB, m3u_run.parsed, m3u_run.next, rank, m3u_run.start_time)
       IN  /\ channels' = db.channels
           /\ urls' = {u \in db.urls : u.last_seen = m3u_run.start_time}
    /\ m3u_run' = [m3u_run EXCEPT !.next = @ + BatchSize]
    /\ UNCHANGED <<epg_data, filters, m3u_sources, epg_sources, jobs,
                   no_epg_rule_active, now, m3u_feed, xmltv_feed, released,
                   exec_vars, epg_run, last>>

refresh_m3u_batch(rank) ==
    /\ m3u_run.phase = "batches"
    /\ m3u_run.next <= Len(m3u_run.parsed)
    /\ LET db == ProcessBatch(DB, m3u_run.parsed, m3u_run.next, rank, m3u_run.start_time)
       IN  /\ channels' = db.channels
           /\ urls' = db.urls
    /\ m3u_run' = [m3u_run EXCEPT !.next = @ + BatchSize]
    /\ UNCHANGED <<epg_data, filters, m3u_sources, epg_sources, jobs,
                   no_epg_rule_active, now, m3u_feed, xmltv_feed, released,
                   exec_vars, epg_run, last>>

refresh_m3u_finish ==
    /\ m3u_run.phase = "batches"
    /\ m3u_run.next > Len(m3u_run.parsed)
    /\ LET db == [DB EXCEPT !.m3u_sources =
                     SetLastChecked(m3u_sources, m3u_run.source_id, m3u_run.start_time)]
       IN  /\ m3u_sources' = db.m3u_sources
           /\ channels' = SynchronizeChannelStatesLogic(db, no_epg_rule_active).channels
           /\ last' = Done("refresh_single_m3u_source", m3u_run.source_id, "done",
                           SyncWritten(db, no_epg_rule_active))
    /\ m3u_run' = [m3u_run EXCEPT !.phase = "done", !.synced = TRUE]
    /\ UNCHANGED <<urls, epg_data, filters, epg_sources, jobs,
                   no_epg_rule_active, now, m3u_feed, xmltv_feed, released,
                   exec_vars, epg_run>>

\* The order in which a batch's query returns its rows is not specified.
RowOrders == Permutations({c.id : c \in channels})

----------------------------------------------------------------------------
(* XMLTV: parse_xmltv_datetime, normalize_name and the EPG refresh job     *)
(* refresh_single_epg_source (scheduler_jobs.py lines 291-387).            *)

\* An XMLTV document as ET.fromstring and findall see it.  An attribute
\* that is missing is None; display_name is the text of <display-name> ('' 
\* when the node is missing, None when it has no text); title is NoNode
\* when <title> is missing and None when it has no text.
NoNode == <<"NoNode">>

XmlChannel(id, display_name, icon) ==
    [id |-> id, display_name |-> display_name, icon |-> icon]

XmlProgramme(channel, start, stop, title) ==
    [channel |-> channel, start |-> start, stop |-> stop, title |-> title]

XmlDoc(wellformed, chans, progs) ==
    [wellformed |-> wellformed, channels |-> chans, programmes |-> progs]

\* str.strip() and the first two fields of str.split(' ').
RECURSIVE LStrip(_)
LStrip(s) == IF Len(s) > 0 /\ s[1] = " " THEN LStrip(Tail(s)) ELSE s

RECURSIVE RStrip(_)
RStrip(s) ==
    IF Len(s) > 0 /\ s[Len(s)] = " " THEN RStrip(SubSeq(s, 1, Len(s) - 1)) ELSE s

Strip(s) == RStrip(LStrip(s))

\* The index of the first space at or after i, Len(s) + 1 when there is none.
RECURSIVE SpaceFrom(_, _)
SpaceFrom(s, i) ==
    IF i > Len(s) \/ s[i] = " " THEN i ELSE SpaceFrom(s, i + 1)

\* The result of parse_xmltv_datetime: an instant, None, or an exception
\* that the function does not catch.
Instant(t) == [kind |-> "time", t |-> t]
NoInstant == [kind |-> "none", t |-> 0]
ParseRaises == [kind |-> "raise", t |-> 0]

\* The widest UTC offset datetime.timezone accepts is below 24 hours.
MinutesPerDay == 1440

\* parse_xmltv_datetime.  The date part is read as a number of minutes (the
\* model's clock unit) where the code reads %Y%m%d%H%M%S; the offset part is
\* sign, two digits of hours, two digits of minutes, as in the code.
\* None.strip() raises AttributeError, which the function does not catch.
ParseXmltvDatetime(dt_str) ==
    IF dt_str = None THEN ParseRaises
    ELSE LET s   == Strip(dt_str)
             sp1 == SpaceFrom(s, 1)
             sp2 == SpaceFrom(s, sp1 + 1)
             dt_part == SubSeq(s, 1, sp1 - 1)
             has_offset == sp1 <= Len(s)
             offset_str == SubSeq(s, sp1 + 1, sp2 - 1)
             hh == SubSeq(offset_str, 2, IF Len(offset_str) < 3 THEN Len(offset_str) ELSE 3)
             mm == SubSeq(offset_str, 4, IF Len(offset_str) < 5 THEN Len(offset_str) ELSE 5)
             minutes == 60 * ToInt(hh) + ToInt(mm)
         IN  IF ~IsDigitText(dt_part) THEN NoInstant
             ELSE IF ~has_offset THEN Instant(ToInt(dt_part))
             ELSE IF ~IsDigitText(hh) \/ ~IsDigitText(mm) THEN NoInstant
             ELSE IF minutes >= MinutesPerDay THEN NoInstant
             ELSE IF offset_str[1] = "-" THEN Instant(ToInt(dt_part) + minutes)
             ELSE Instant(ToInt(dt_part) - minutes)

IsAlnumLower(c) ==
    \/ \E i \in 1..Len(LowerCase) : LowerCase[i] = c
    \/ \E i \in 1..Len(Digits) : Digits[i] = c

\* normalize_name: '' for a falsy name, else re.sub('[^a-z0-9]', '', name.lower())
NormalizeName(name) ==
    IF ~Truthy(name) THEN << >> ELSE SelectSeq(Lower(name), IsAlnumLower)

\* A job that adds a Channel for an element that matches none.
MapChannelNodeCreating(st, node, by_tvg, by_norm) ==
    LET byT == Get(by_tvg, Lower(node.id))
        hit == IF byT # 0 THEN byT
               ELSE IF Truthy(node.display_name)
                    THEN Get(by_norm, NormalizeName(node.display_name))
                    ELSE 0
        cid == NewId(st.channels)
    IN  IF ~Truthy(node.id) \/ hit # 0 THEN st
        ELSE [channels |-> st.channels \cup
                           {Channel(cid, node.display_name, None, node.id,
                                    node.display_name, node.icon, NoNum, TRUE, 0)},
              map      |-> (node.id :> cid) @@ st.map]

\* A job that takes the element's id and icon whatever the Channel holds.
MapChannelNodeOverwriting(st, node, by_tvg, by_norm) ==
    LET byT == Get(by_tvg, Lower(node.id))
        hit == IF byT # 0 THEN byT
               ELSE IF Truthy(node.display_name)
                    THEN Get(by_norm, NormalizeName(node.display_name))
                    ELSE 0
        old == RowOf(st.channels, hit)
        new == [old EXCEPT
                  !.tvg_id = node.id,
                  !.tvg_logo = IF Truthy(node.icon) THEN node.icon ELSE @]
    IN  IF ~Truthy(node.id) \/ hit = 0 THEN st
        ELSE [channels |-> (st.channels \ {old}) \cup {new},
              map      |-> (node.id :> hit) @@ st.map]

\* One <channel> node, lines 318-341.  st.channels are the Channel objects
\* of the session (a backfill is seen by the nodes after it), st.map is
\* epg_to_db_channel_map: XMLTV channel id -> Channel id.
MapChannelNode(st, node, by_tvg, by_norm) ==
    LET byT == Get(by_tvg, Lower(node.id))
        hit == IF byT # 0 THEN byT
               ELSE IF Truthy(node.display_name)
                    THEN Get(by_norm, NormalizeName(node.display_name))
                    ELSE 0
        old == RowOf(st.channels, hit)
        new == [old EXCEPT
                  !.tvg_id = IF ~Truthy(@) THEN node.id ELSE @,
                  !.tvg_logo = IF Truthy(node.icon) /\ ~Truthy(@) THEN node.icon ELSE @]
    IN  IF ~Truthy(node.id) \/ hit = 0 THEN st
        ELSE [channels |-> (st.channels \ {old}) \cup {new},
              map      |-> (node.id :> hit) @@ st.map]

RECURSIVE MapChannelNodes(_, _, _, _, _)
MapChannelNodes(st, nodes, i, by_tvg, by_norm) ==
    IF i > Len(nodes) THEN st
    ELSE MapChannelNodes(MapChannelNode(st, nodes[i], by_tvg, by_norm),
                         nodes, i + 1, by_tvg, by_norm)

\* Lines 310-341: the two indexes over Channel.query.all() (rank is the
\* order in which the query returned the rows) and the loop over the nodes.
MapChannels(chans, nodes, rank) ==
    MapChannelNodes([channels |-> chans, map |-> << >>], nodes, 1,
                    DictBy({c \in chans : Truthy(c.tvg_id)}, rank,
                           [c \in chans |-> Lower(c.tvg_id)]),
                    DictBy(chans, rank, [c \in chans |-> NormalizeName(c.name)]))

\* mapped_db_tvg_ids, line 351
MappedDbTvgIds(chans, map) ==
    {c.tvg_id : c \in {RowOf(chans, map[k]) : k \in DOMAIN map}} \ {None, << >>}

\* A replace that purges the table and never aborts.
DeleteAllEpgData(rows, chans, map) == [abort |-> FALSE, rows |-> {}]

\* A job that deletes nothing before it inserts.
DeleteNoEpgData(rows, chans, map) == [abort |-> DOMAIN map = {}, rows |-> rows]

\* Lines 347-352: with no channel mapped the job returns before the delete;
\* otherwise the rows of the mapped tvg_ids are deleted.
DeleteMappedEpgData(rows, chans, map) ==
    [abort |-> DOMAIN map = {},
     rows  |-> IF DOMAIN map = {} THEN rows
               ELSE {e \in rows : e.channel_tvg_id \notin MappedDbTvgIds(chans, map)}]

\* Lines 355-370: the programmes to insert, in document order; raised when
\* parse_xmltv_datetime raised on a missing start or stop attribute.
RECURSIVE NewPrograms(_, _, _, _, _)
NewPrograms(progs, i, map, chans, start_time) ==
    IF i > Len(progs) THEN [raised |-> FALSE, rows |-> << >>]
    ELSE LET p     == progs[i]
             cid   == Get(map, p.channel)
             start == ParseXmltvDatetime(p.start)
             stop  == ParseXmltvDatetime(p.stop)
             rest  == NewPrograms(progs, i + 1, map, chans, start_time)
             title == IF p.title = NoNode THEN <<"N","o"," ","T","i","t","l","e">>
                      ELSE p.title
         IN  IF cid = 0 \/ ~Truthy(RowOf(chans, cid).tvg_id) THEN rest
             ELSE IF start.kind = "raise" \/ stop.kind = "raise"
                  THEN [raised |-> TRUE, rows |-> << >>]
             ELSE IF start.kind = "none" \/ stop.kind = "none" \/ stop.t < start_time
                  THEN rest
             ELSE [rest EXCEPT !.rows =
                      <<[channel_tvg_id |-> RowOf(chans, cid).tvg_id, title |-> title,
                         start_time |-> start.t, end_time |-> stop.t]>> \o @]

\* bulk_save_objects: ids in the order of the list.
RECURSIVE BulkSave(_, _, _)
BulkSave(rows, new, i) ==
    IF i > Len(new) THEN rows
    ELSE BulkSave(rows \cup {EpgRow(NewId(rows), new[i].channel_tvg_id, new[i].title,
                                    new[i].start_time, new[i].end_time)},
                  new, i + 1)

\* The job after a successful fetch, lines 307-387: the catalog it leaves,
\* how it ended, the channels mapped and the rows the synchronisation wrote.
EpgResult(db, outcome, mapped, written) ==
    [db |-> db, outcome |-> outcome, mapped |-> mapped, written |-> written]

\* A job that stamps last_checked before it gives up on a document.
AfterParseErrorStamped(db, sid, t) ==
    [db EXCEPT !.epg_sources = SetLastChecked(db.epg_sources, sid, t)]

\* ET.fromstring raised (line 308): except Exception, rollback (385-386).
AfterParseError(db, sid, t) == db

EpgRefresh(db, doc, rank, sid, start_time, rule) ==
    IF ~doc.wellformed
    THEN EpgResult(AfterParseError(db, sid, start_time), "error", {}, {})
    ELSE
    LET m      == MapChannels(db.channels, doc.channels, rank)
        mapped == {m.map[k] : k \in DOMAIN m.map}
        db1    == [db EXCEPT !.channels = m.channels]
        del    == DeleteMappedEpgData(db.epg_data, m.channels, m.map)
        np     == NewPrograms(doc.programmes, 1, m.map, m.channels, start_time)
        bad    == np.raised \/ \E i \in 1..Len(np.rows) : np.rows[i].title = None
        db2    == [db1 EXCEPT
                     !.epg_data = BulkSave(del.rows, np.rows, 1),
                     !.epg_sources = SetLastChecked(db.epg_sources, sid, start_time)]
        written == SyncWritten(db2, rule)
        commit == \/ Len(np.rows) > 0
                  \/ \E s \in db.epg_sources : s.id = sid
                  \/ written # {}
    IN  IF del.abort THEN EpgResult(db1, "no_channels_mapped", mapped, {})
        ELSE IF bad THEN EpgResult(db1, "error", mapped, {})
        ELSE IF ~commit THEN EpgResult(db1, "done", mapped, {})
        ELSE EpgResult(SynchronizeChannelStatesLogic(db2, rule), "done", mapped, written)

\* refresh_single_epg_source(epg_id, epg_url)
refresh_single_epg_source(src, fetch_ok, rank) ==
    /\ now < MaxRuns
    /\ now' = now + 1
    /\ \E r \in {IF fetch_ok
                  THEN EpgRefresh(DB, xmltv_feed[src.url], rank, src.id, now + 1,
                                  no_epg_rule_active)
                  ELSE EpgResult(DB, "download_failed", {}, {})} :
           /\ channels' = r.db.channels
           /\ epg_data' = r.db.epg_data
           /\ epg_sources' = r.db.epg_sources
           /\ epg_run' = [phase |-> "ended", source_id |-> src.id,
                          fetch_ok |-> fetch_ok, outcome |-> r.outcome,
                          mapped |-> r.mapped, start_time |-> now + 1,
                          synced |-> (r.outcome = "done"),
                          pre |-> DB, pre_jobs |-> jobs]
           /\ last' = Done("refresh_single_epg_source", src.id, r.outcome, r.written)
    /\ UNCHANGED <<urls, filters, m3u_sources, jobs, no_epg_rule_active,
                   m3u_feed, xmltv_feed, released, exec_vars, m3u_run>>

----------------------------------------------------------------------------
(* Specification SpecSync: a catalog of three ingested channels, the       *)
(* filter and channel routes, and the synchronisation jobs.                *)

SyncChannels ==
    { Channel(1, NameFR,  None,  TvgA,  NameFR,  None, NoNum, TRUE, 0),
      Channel(2, NameX,   CatFr, None,  NameX,   None, NoNum, TRUE, 0),
      Channel(3, NameBbc, << >>, << >>, NameBbc, None, NoNum, TRUE, 0) }

SyncUrls ==
    { UrlRow(1, Url1, 1, 0), UrlRow(2, Url1, 2, 0), UrlRow(3, Url2, 3, 0) }

SyncEpgRows ==
    { EpgRow(1, TvgA, NameX, 1, 2), EpgRow(2, TvgB, NameX, 1, 2) }

InitSync ==
    /\ channels = SyncChannels
    /\ urls = SyncUrls
    /\ epg_data \in SUBSET SyncEpgRows
    /\ filters = {}
    /\ m3u_sources = {}
    /\ epg_sources = {}
    /\ jobs = {DailyCleanupJob}
    /\ no_epg_rule_active \in BOOLEAN
    /\ now = 0
    /\ m3u_feed = << >>
    /\ xmltv_feed = << >>
    /\ m3u_run = NoRun
    /\ epg_run = NoEpgRun
    /\ last = NoLast
    /\ released = NotRecorded
    /\ NoJobExecuting

NextSync ==
    \/ \E p \in Patterns, e \in BOOLEAN : manage_filters(p, e)
    \/ \E i \in 1..MaxFilterId : delete_filter(i)
    \/ \E i \in 1..MaxFilterId : toggle_filter(i)
    \/ apply_all_filters
    \/ apply_no_epg_disable
    \/ \E c \in channels : toggle_channel(c.id)
    \/ \E j \in jobs : synchronize_channel_states(j)

SpecSync == InitSync /\ [][NextSync]_vars

----------------------------------------------------------------------------
(* Specification SpecFilters: the filter routes and the job they submit,   *)
(* on the same catalog with the no-EPG rule off.  The scheduler's worker   *)
(* pool runs every pending one-shot job: weak fairness of the job run.     *)

InitFilters ==
    /\ channels = SyncChannels
    /\ urls = SyncUrls
    /\ epg_data = {}
    /\ filters = {}
    /\ m3u_sources = {}
    /\ epg_sources = {}
    /\ jobs = {DailyCleanupJob}
    /\ no_epg_rule_active = FALSE
    /\ now = 0
    /\ m3u_feed = << >>
    /\ xmltv_feed = << >>
    /\ m3u_run = NoRun
    /\ epg_run = NoEpgRun
    /\ last = NoLast
    /\ released = NotRecorded
    /\ NoJobExecuting

NextFilters ==
    \/ \E p \in Patterns, e \in BOOLEAN : manage_filters(p, e)
    \/ \E i \in 1..MaxFilterId : delete_filter(i)
    \/ \E i \in 1..MaxFilterId : toggle_filter(i)
    \/ apply_all_filters
    \/ \E j \in jobs : synchronize_channel_states(j)

SpecFilters ==
    /\ InitFilters
    /\ [][NextFilters]_vars
    /\ WF_vars(\E j \in jobs : synchronize_channel_states(j))

----------------------------------------------------------------------------
(* Properties of the State Synchronizer and the filter routes (SpecSync).  *)

SyncJustRan == last.op = "synchronize_channel_states"

\* Some enabled filter's pattern matches the channel's name or its category.
MatchesEnabledFilter(c) ==
    \E f \in filters :
        /\ f.enabled
        /\ \/ ReSearch(f.pattern, c.name)
           \/ (Truthy(c.category) /\ ReSearch(f.pattern, c.category))

\* No EPG entry carries the channel's tvg_id (so for every channel without one).
HasNoEpgEntry(c) == ~\E e \in epg_data : e.channel_tvg_id = c.tvg_id

\* C1: after a State Synchronizer run, a channel is disabled if and only if
\* an enabled filter matches its name or category, or the no-EPG rule is
\* active and no EPG entry has the channel's tvg_id.
C1_DisabledIffBlocked ==
    SyncJustRan =>
        \A c \in channels :
            (c.enabled = FALSE) <=>
                (MatchesEnabledFilter(c) \/ (no_epg_rule_active /\ HasNoEpgEntry(c)))

\* C1 witness: a run that wrote rows, leaving one channel disabled through
\* its category only and another channel enabled.
C1_Witness ==
    /\ SyncJustRan
    /\ last.written # {}
    /\ \E c \in channels : c.enabled
    /\ \E c \in channels :
          /\ ~c.enabled
          /\ \A f \in filters : ~ReSearch(f.pattern, c.name)
          /\ ~no_epg_rule_active

\* The catalog after a step.
DBNext == [channels |-> channels', urls |-> urls', epg_data |-> epg_data',
           filters |-> filters', m3u_sources |-> m3u_sources',
           epg_sources |-> epg_sources']

\* C2: a State Synchronizer run writes the enabled flag of exactly the
\* channels whose flag differs from the computed value, changes no other
\* field or row, and leaves a catalog on which a second run writes nothing.
C2_SyncMinimalIdempotent ==
    [][ (last'.op = "synchronize_channel_states") =>
          /\ <<urls, epg_data, filters, m3u_sources, epg_sources>>' =
             <<urls, epg_data, filters, m3u_sources, epg_sources>>
          /\ {c.id : c \in channels'} = {c.id : c \in channels}
          /\ Cardinality(channels') = Cardinality(channels)
          /\ \A c \in channels :
                LET want == ~(MatchesEnabledFilter(c)
                              \/ (no_epg_rule_active /\ HasNoEpgEntry(c)))
                    d    == RowOf(channels', c.id)
                IN  IF c.enabled # want
                    THEN d = [c EXCEPT !.enabled = want] /\ c.id \in last'.written
                    ELSE d = c /\ (vars' # vars => c.id \notin last'.written)
          /\ SyncWritten(DBNext, no_epg_rule_active') = {}
      ]_vars

\* C2 witness: a run that wrote some channels and left others alone.
C2_Witness ==
    /\ SyncJustRan
    /\ last.written # {}
    /\ last.written # {c.id : c \in channels}

ApplyJobPending ==
    \E j \in jobs : j.id = JobId("manual_apply_all_filters_job", 0)

FilterMutated ==
    /\ last.op \in {"manage_filters", "toggle_filter"}
    /\ last.outcome \in {"enabled", "disabled"}

FilterEnabledNow ==
    /\ last.op \in {"manage_filters", "toggle_filter"}
    /\ last.outcome = "enabled"

\* The global invariant of the data model: an enabled channel is blocked by
\* no rule.
EnabledInvariant ==
    \A c \in channels :
        c.enabled => ~(MatchesEnabledFilter(c) \/ (no_epg_rule_active /\ HasNoEpgEntry(c)))

-----------------------------------------------------------------------\* Specification SpecRelease: SpecSync's routes and jobs on a catalog where
\* one channel has EPG data, with the record of released channels kept.
InitRelease ==
    /\ channels = SyncChannels
    /\ urls = SyncUrls
    /\ epg_data = {EpgRow(1, TvgA, NameX, 1, 2)}
    /\ filters = {}
    /\ m3u_sources = {}
    /\ epg_sources = {}
    /\ jobs = {DailyCleanupJob}
    /\ no_epg_rule_active \in BOOLEAN
    /\ now = 0
    /\ m3u_feed = << >>
    /\ xmltv_feed = << >>
    /\ m3u_run = NoRun
    /\ epg_run = NoEpgRun
    /\ last = NoLast
    /\ released = [recording |-> TRUE, rows |-> {}]
    /\ NoJobExecuting

NextRelease ==
    \/ \E p \in Patterns, e \in BOOLEAN : manage_filters(p, e)
    \/ \E i \in 1..MaxFilterId : delete_filter(i)
    \/ \E i \in 1..MaxFilterId : toggle_filter(i)
    \/ apply_all_filters
    \/ apply_no_epg_disable
    \/ \E c \in channels : toggle_channel(c.id)
    \/ \E j \in jobs : synchronize_channel_states(j)

SpecRelease == InitRelease /\ [][NextRelease]_vars

\* C11: once the only enabled filter that matched a disabled channel is
\* deleted or disabled, the next State Synchronizer run leaves the channel
\* enabled if and only if no enabled filter matches it and the no-EPG rule
\* does not block it; otherwise the channel stays disabled.
C11_ReleasedChannelReenabled ==
    [][ (last'.op = "synchronize_channel_states") =>
          \A r \in released.rows :
              ~r.synced =>
                  LET c == RowOf(channels, r.id)
                  IN  RowOf(channels', r.id).enabled <=>
                          /\ ~MatchesEnabledFilter(c)
                          /\ ~(no_epg_rule_active /\ HasNoEpgEntry(c))
      ]_vars

\* C11 witness: a run that found two released channels, re-enabled one and
\* left the other disabled under the no-EPG rule.
C11_Witness ==
    /\ SyncJustRan
    /\ \E r \in released.rows : r.synced /\ RowOf(channels, r.id).enabled
                                     /\ r.id \in last.written
    /\ \E r \in released.rows : r.synced /\ ~RowOf(channels, r.id).enabled

-----
(* Specification SpecM3U: two M3U sources, each serving a fixed body, and   *)
(* refreshed one run after the other on a catalog that starts empty.       *)

SrcUrl1 == <<"s","1">>

EntryA1 == Attrs(TvgA,  None,  NameFR,  None,  None, None)
EntryA2 == Attrs(TvgB,  None,  NameFR,  None,  None, <<"7">>)
EntryA3 == Attrs(None,  None,  NameFR,  None,  None, None)
EntryA4 == Attrs(TvgA,  None,  << >>,   None,  None, None)
EntryA5 == Attrs(<< >>, NameX, NameBbc, CatFr, Url1, None)

Entry(a, u) == <<ExtInf(a), UrlLine(u)>>

Blocks ==
    { Entry(EntryA1, Url1), Entry(EntryA1, Url2),
      <<ExtInf(EntryA2), CommentLine, BlankLine, UrlLine(Url1)>>,
      Entry(EntryA3, Url2), Entry(EntryA4, Url2), Entry(EntryA5, Url2) }

RECURSIVE Bodies(_)
Bodies(n) ==
    IF n = 0 THEN {<< >>}
    ELSE Bodies(n - 1) \cup {b \o x : b \in Bodies(n - 1), x \in Blocks}

\* What source 1 serves: the header line and up to MaxEntries blocks.
M3UBodies == {<<HeaderLine>> \o b : b \in Bodies(MaxEntries)}

\* What source 2 serves: an empty body, a body that lacks the header line,
\* or one entry that renames and re-categorises the channel with tvg_id a,
\* under the header line or under a header line that follows a space.
EntryB1 == Attrs(TvgA, None, NameBbc, CatFr, None, None)

OtherBodies ==
    { << >>, Entry(EntryA3, Url1), <<HeaderLine>> \o Entry(EntryB1, Url1),
      <<IndentedHeaderLine>> \o Entry(EntryB1, Url1) }

SrcUrl2 == <<"s","2">>

InitM3U ==
    /\ channels = {}
    /\ urls = {}
    /\ epg_data = {}
    /\ filters \in {{}, {[id |-> 1, pattern |-> PatFR, enabled |-> TRUE]}}
    /\ m3u_sources = {Source(1, SrcUrl1, TRUE, 24, NoTime),
                      Source(2, SrcUrl2, TRUE, 24, NoTime)}
    /\ epg_sources = {}
    /\ jobs = {DailyCleanupJob,
               Job("m3u_refresh", 1, "refresh_single_m3u_source", "interval", 24),
               Job("m3u_refresh", 2, "refresh_single_m3u_source", "interval", 24)}
    /\ no_epg_rule_active = FALSE
    /\ now = 0
    /\ \E b1 \in M3UBodies, b2 \in OtherBodies :
          m3u_feed = (SrcUrl1 :> b1) @@ (SrcUrl2 :> b2)
    /\ xmltv_feed = << >>
    /\ m3u_run = NoRun
    /\ epg_run = NoEpgRun
    /\ last = NoLast
    /\ released = NotRecorded
    /\ NoJobExecuting

NextM3U ==
    \/ \E src \in m3u_sources, ok \in BOOLEAN : refresh_m3u_start(src, ok)
    \/ \E rank \in RowOrders : refresh_m3u_batch(rank)
    \/ refresh_m3u_finish

SpecM3U == InitM3U /\ [][NextM3U]_vars

----------------------------------------------------------------------------
(* Properties of M3U ingestion (SpecM3U).                                  *)

RunDone == m3u_run.phase = "done"

\* The body the running (or last) refresh job fetched.
RunBody == m3u_feed[RowOf(m3u_run.pre.m3u_sources, m3u_run.source_id).url]

ForgetLastSeen(rows) == {[r EXCEPT !.last_seen = 0] : r \in rows}
ForgetLastChecked(rows) == {[r EXCEPT !.last_checked = 0] : r \in rows}

\* C3: the second of two runs in sequence on the same unchanged feed creates
\* and deletes no Channel or Url row and changes no field other than
\* last_seen and the source's last_checked.
C3_SecondRunOnlyBumps ==
    (RunDone /\ m3u_run.repeat) =>
        /\ ForgetLastSeen(channels) = ForgetLastSeen(m3u_run.pre.channels)
        /\ ForgetLastSeen(urls) = ForgetLastSeen(m3u_run.pre.urls)
        /\ ForgetLastChecked(m3u_sources) = ForgetLastChecked(m3u_run.pre.m3u_sources)
        /\ <<epg_data, filters, epg_sources>> =
           <<m3u_run.pre.epg_data, m3u_run.pre.filters, m3u_run.pre.epg_sources>>

\* C4: between ingestions no Channel holds two Url rows with the same url.
C4_NoDuplicateUrl ==
    NoRunInProgress =>
        \A u \in urls, v \in urls :
            (u.channel_id = v.channel_id /\ u.url = v.url) => u.id = v.id

\* The entries of a body: each url line with the EXTINF line pending before
\* it (blank and comment lines between them skipped).
RECURSIVE EntriesOf(_, _, _)
EntriesOf(lines, i, cur) ==
    IF i > Len(lines) THEN {}
    ELSE IF lines[i].kind = "extinf" THEN EntriesOf(lines, i + 1, lines[i].attrs)
    ELSE IF lines[i].kind = "badextinf" THEN EntriesOf(lines, i + 1, NoAttrs)
    ELSE IF lines[i].kind = "url" /\ cur # NoAttrs
         THEN {[attrs |-> cur, url |-> lines[i].text]} \cup EntriesOf(lines, i + 1, NoAttrs)
    ELSE EntriesOf(lines, i + 1, cur)

\* key = tvg_id when present, else tvg_name, else the display name
EntryKey(e) ==
    IF e.attrs.tvg_id # None /\ e.attrs.tvg_id # << >> THEN e.attrs.tvg_id
    ELSE IF e.attrs.tvg_name # None /\ e.attrs.tvg_name # << >> THEN e.attrs.tvg_name
    ELSE e.attrs.display_name

EntryNamed(e) ==
    \/ (e.attrs.tvg_name # None /\ e.attrs.tvg_name # << >>)
    \/ (e.attrs.display_name # None /\ e.attrs.display_name # << >>)

\* The entries E of the fetched body are grouped by key: each key has exactly
\* one parsed item, holding the union of the urls of the key's entries, and
\* once the run is done one Channel holds a Url row for each of them (and,
\* when exact, for no other url).
GroupedByKey(E, exact) ==
    \A e \in E :
        LET k     == EntryKey(e)
            union == {x.url : x \in {y \in E : EntryKey(y) = k}}
            items == {i \in 1..Len(m3u_run.parsed) : m3u_run.parsed[i].key = k}
        IN  /\ Cardinality(items) = 1
            /\ \A i \in items : m3u_run.parsed[i].urls = union
            /\ RunDone =>
                 \E c \in channels :
                    LET held == {r.url : r \in {x \in urls : x.channel_id = c.id}}
                    IN  union \subseteq held /\ (exact => held = union)

RunParsed == m3u_run.phase \in {"batches", "done"}

\* C5 as stated: all entries of the feed with the same key yield exactly one
\* Channel whose urls are the union of the entries' urls.
C5_AllEntriesGrouped ==
    RunParsed => GroupedByKey(EntriesOf(RunBody, 1, NoAttrs), TRUE)

\* C5 amended: all entries of the feed that have a resolved name (tvg_name or
\* display name) and the same key yield exactly one parsed item, and so one
\* Channel, which holds a Url row for each of the entries' urls; an entry
\* without a resolved name is dropped even when it carries a tvg_id.
C5_NamedEntriesGrouped ==
    RunParsed =>
        LET E == {e \in EntriesOf(RunBody, 1, NoAttrs) : EntryNamed(e)}
        IN  /\ GroupedByKey(E, FALSE)
            /\ {m3u_run.parsed[i].key : i \in 1..Len(m3u_run.parsed)} =
               {EntryKey(e) : e \in E}

\* C5 witness: a completed run of a feed with two entries of one key and
\* different urls, which one Channel now holds.
C5_Witness ==
    /\ RunDone
    /\ \E i \in 1..Len(m3u_run.parsed) :
          /\ Cardinality(m3u_run.parsed[i].urls) = 2
          /\ \E c \in channels :
                /\ c.tvg_id = m3u_run.parsed[i].key
                /\ Cardinality({r \in urls : r.channel_id = c.id}) = 2

\* The body's first line is the #EXTM3U header, after strip() or as written.
FirstLineIsHeader(lines) == Len(lines) > 0 /\ lines[1].kind = "header"
FirstLineStartsWithHeader(lines) == FirstLineIsHeader(lines) /\ lines[1].text = << >>

\* Nothing was written by the M3U job that ran last: the catalog and the job
\* registry are as they were when it started, and it did not synchronise.
M3uJobWroteNothing ==
    /\ m3u_run.phase = "aborted"
    /\ DB = m3u_run.pre
    /\ jobs = m3u_run.pre_jobs
    /\ ~m3u_run.synced

\* C6 as stated: a body whose first line does not start with #EXTM3U ends
\* the job with nothing written.
C6_NoLeadingHeaderWritesNothing ==
    (m3u_run.phase # "idle" /\ m3u_run.fetch_ok
        /\ ~FirstLineStartsWithHeader(RunBody)) => M3uJobWroteNothing

\* C6 amended: a body whose first line, stripped of surrounding whitespace,
\* does not start with #EXTM3U (an empty body included) ends the job with
\* nothing written: the catalog is as it was when the job started and the
\* State Synchronizer was not invoked.
C6_BadHeaderWritesNothing ==
    (m3u_run.phase # "idle" /\ m3u_run.fetch_ok
        /\ ~FirstLineIsHeader(RunBody)) => M3uJobWroteNothing

\* C6 witness: a non-empty body without the header was fetched while the
\* catalog held channels.
C6_Witness ==
    /\ m3u_run.phase = "aborted"
    /\ last.outcome = "invalid_header"
    /\ Len(RunBody) > 0
    /\ channels # {}

\* C10: when an M3U ingestion job is done, every Channel it created or
\* updated that an enabled filter matches by name or category is disabled.
C10_IngestedFilteredDisabled ==
    RunDone =>
        \A c \in channels :
            (c.last_seen = m3u_run.start_time /\ MatchesEnabledFilter(c)) => ~c.enabled

\* C10 witness: the job created a channel the filter matches by name and
\* updated one that it now matches by category only.
C10_Witness ==
    /\ RunDone
    /\ \E c \in channels :
          c.last_seen = m3u_run.start_time /\ ~c.enabled
          /\ \E f \in filters : f.enabled /\ ReSearch(f.pattern, c.name)
    /\ \E c \in channels :
          c.last_seen = m3u_run.start_time /\ ~c.enabled
          /\ \A f \in filters : ~ReSearch(f.pattern, c.name)

----------------------------------------------------------------------------
(* Specification SpecEpg: one EPG source and one M3U source, refreshed in  *)
(* any order, on a catalog of three channels.                              *)

\* <channel> nodes in one XMLTV document.
MaxNodes == 2

TvgUpperA == <<"A">>
TvgQ      == <<"q">>
TvgZ      == <<"z">>
Title1    == <<"T">>

EpgChannels ==
    { Channel(1, NameFR,  None,  TvgUpperA, NameFR,  None, NoNum, TRUE, 0),
      Channel(2, NameBbc, CatFr, None,      NameBbc, None, NoNum, TRUE, 0),
      Channel(3, NameX,   None,  TvgB,      NameX,   Url1, 7,     TRUE, 0) }

EpgRowsBefore ==
    { EpgRow(1, TvgUpperA, Title1, 0, 9), EpgRow(2, TvgZ, Title1, 0, 9) }

\* <channel> nodes: one that matches channel 1 by tvg_id in another case, one
\* that matches channel 2 by normalised name and carries an icon, one that
\* matches nothing.
XmlNodes ==
    { XmlChannel(TvgA, << >>, None),
      XmlChannel(TvgQ, <<"b","-","B","c">>, Url2),
      XmlChannel(TvgZ, <<"Q">>, None) }

RECURSIVE NodeLists(_)
NodeLists(n) ==
    IF n = 0 THEN {<< >>}
    ELSE NodeLists(n - 1) \cup {l \o <<x>> : l \in NodeLists(n - 1), x \in XmlNodes}

Time1 == <<"1">>
Time2 == <<"2">>
Time5 == <<"5">>
Time5East == <<"5"," ","+","0","1","0","0">>
TimeBad == <<"x">>

\* <programme> lists: a current programme; one that stops at a run's start
\* time and has no title node, then one that an offset makes past; a missing
\* start attribute; a title without text; a programme of an unmapped
\* channel, then an unparsable start, then a current programme.
XmlProgrammeLists ==
    { << >>,
      <<XmlProgramme(TvgA, Time1, Time5, Title1)>>,
      <<XmlProgramme(TvgQ, Time1, Time2, NoNode),
        XmlProgramme(TvgA, Time1, Time5East, Title1)>>,
      <<XmlProgramme(TvgA, None, Time5, Title1),
        XmlProgramme(TvgQ, Time1, Time5, Title1)>>,
      <<XmlProgramme(TvgA, Time1, Time5, None)>>,
      <<XmlProgramme(TvgZ, Time1, Time5, Title1),
        XmlProgramme(TvgA, TimeBad, Time5, Title1),
        XmlProgramme(TvgA, Time1, Time5, Title1)>> }

XmlDocs ==
    {XmlDoc(FALSE, << >>, << >>)}
    \cup {XmlDoc(TRUE, c, p) : c \in NodeLists(MaxNodes), p \in XmlProgrammeLists}

EpgUrl1 == <<"e","1">>

InitEpg ==
    /\ channels = EpgChannels
    /\ urls = SyncUrls
    /\ epg_data \in {{}, EpgRowsBefore}
    /\ filters = {}
    /\ m3u_sources = {Source(1, SrcUrl1, TRUE, 24, NoTime)}
    /\ epg_sources = {Source(1, EpgUrl1, TRUE, 12, NoTime)}
    /\ jobs = {DailyCleanupJob,
               Job("m3u_refresh", 1, "refresh_single_m3u_source", "interval", 24),
               Job("epg_refresh", 1, "refresh_single_epg_source", "interval", 12)}
    /\ no_epg_rule_active \in BOOLEAN
    /\ now = 0
    /\ m3u_feed = (SrcUrl1 :> (<<HeaderLine>> \o Entry(EntryA3, Url1)))
    /\ \E d \in XmlDocs : xmltv_feed = (EpgUrl1 :> d)
    /\ m3u_run = NoRun
    /\ epg_run = NoEpgRun
    /\ last = NoLast
    /\ released = NotRecorded
    /\ NoJobExecuting

NextEpg ==
    \/ \E src \in epg_sources, ok \in BOOLEAN, rank \in RowOrders :
          refresh_single_epg_source(src, ok, rank)
    \/ \E src \in m3u_sources, ok \in BOOLEAN : refresh_m3u_start(src, ok)
    \/ \E rank \in RowOrders : refresh_m3u_batch(rank)
    \/ refresh_m3u_finish

SpecEpg == InitEpg /\ [][NextEpg]_vars

----------------------------------------------------------------------------
(* Properties of the refresh jobs (SpecEpg).                               *)

\* A step in which an M3U refresh job ended on a failed fetch.
M3uFetchFailed ==
    m3u_run' # m3u_run /\ m3u_run'.phase = "aborted" /\ ~m3u_run'.fetch_ok

\* A step in which an EPG refresh job ended on a failed fetch.
EpgFetchFailed ==
    epg_run' # epg_run /\ epg_run'.phase = "ended" /\ ~epg_run'.fetch_ok

\* C7: a refresh job (M3U or EPG) whose fetch fails ends with the whole
\* catalog and the job registry as they were.
C7_FetchFailureChangesNothing ==
    [][ (M3uFetchFailed \/ EpgFetchFailed) =>
            /\ DBNext = DB
            /\ jobs' = jobs
            /\ last'.outcome = "download_failed" ]_vars

\* C7 witness: both kinds of job have ended on a failed fetch while the
\* catalog held channels, EPG rows and sources.
C7_Witness ==
    /\ m3u_run.phase = "aborted" /\ ~m3u_run.fetch_ok
    /\ epg_run.phase = "ended" /\ ~epg_run.fetch_ok
    /\ channels # {} /\ epg_data # {}

\* The document the last EPG refresh job fetched.
EpgRunDoc == xmltv_feed[RowOf(epg_run.pre.epg_sources, epg_run.source_id).url]

\* C8: an EPG refresh that maps no XMLTV channel element to a Channel ends
\* with the EPG rows exactly as they were when it started.
C8_NoMappingKeepsEpgData ==
    (epg_run.phase = "ended" /\ epg_run.fetch_ok /\ epg_run.mapped = {}) =>
        epg_data = epg_run.pre.epg_data

\* C8 witness: a well-formed document with channel nodes and programmes,
\* none of them mapped, was refreshed while EPG rows existed.
C8_Witness ==
    /\ epg_run.phase = "ended"
    /\ epg_run.outcome = "no_channels_mapped"
    /\ Len(EpgRunDoc.channels) > 0
    /\ Len(EpgRunDoc.programmes) > 0
    /\ epg_data # {}

----------------------------------------------------------------------------
(* Source administration (routes/sources.py, routes/epg.py) and the        *)
(* scheduler that runs the refresh jobs.                                   *)
(*                                                                         *)
(* The clock counts hours.  An interval job carries its next fire time: a  *)
(* job added at t with hours=h fires first at t + h.  The executor holds   *)
(* the running instances of each job id and refuses to start one more than *)
(* max_instances, which BackgroundScheduler(daemon=True, timezone="UTC")   *)
(* leaves at its default of one.                                           *)

\* Source ids are capped: deleting and adding sources would otherwise grow
\* the ids forever.
MaxSourceId == 2

\* The hours the clock may reach.
MaxClock == 3

MaxInstances == 1

catalog_vars == <<channels, urls, epg_data, filters>>
feed_vars == <<no_epg_rule_active, m3u_feed, xmltv_feed>>
run_vars == <<m3u_run, epg_run, released, sync_runs, workers>>

Max(a, b) == IF a >= b THEN a ELSE b

\* column defaults: models.py refresh_interval_hours
DefaultM3uHours == 24
DefaultEpgHours == 12

\* UpdateIntervalForm.interval_choices (the two smallest)
IntervalChoices == {1, 3}

IntervalJob(kind, sid, func, hours, t) ==
    [id |-> JobId(kind, sid), func |-> func, trigger |-> "interval",
     hours |-> hours, next_run_time |-> t + hours]

\* scheduler_jobs.py schedule_source_refresh_job
schedule_source_refresh_job(js, source_id, interval_hours, t) ==
    AddJob(js, IntervalJob("m3u_refresh", source_id, "refresh_single_m3u_source",
                           Max(1, interval_hours), t))

\* scheduler_jobs.py schedule_epg_refresh_job
schedule_epg_refresh_job(js, epg_id, interval_hours, t) ==
    AddJob(js, IntervalJob("epg_refresh", epg_id, "refresh_single_epg_source",
                           Max(1, interval_hours), t))

\* A route that leaves the job in the registry.
RemoveJobNever(js, id) == js

\* if scheduler.get_job(job_id): scheduler.remove_job(job_id)
RemoveJob(js, id) == {j \in js : j.id # id}

\* A force-refresh route that re-submits the interval job instead.
SubmitManualAsInterval(js, kind, sid, func, t) ==
    AddJob(js, IntervalJob(kind, sid, func, 1, t - 1))

\* scheduler.add_job(..., id=f'manual_..._refresh_{id}', trigger='date')
SubmitManual(js, kind, sid, func, t) ==
    AddJob(js, Job("manual_" \o kind, sid, func, "date", 0))

\* schedule_all_source_refreshes / schedule_all_epg_refreshes
RECURSIVE ScheduleAll(_, _, _, _)
ScheduleAll(js, sources, kind, t) ==
    IF sources = {} THEN js
    ELSE LET src == CHOOSE x \in sources : TRUE
             one == IF ~src.enabled THEN js
                    ELSE IF kind = "m3u"
                    THEN schedule_source_refresh_job(js, src.id, src.refresh_interval_hours, t)
                    ELSE schedule_epg_refresh_job(js, src.id, src.refresh_interval_hours, t)
         IN  ScheduleAll(one, sources \ {src}, kind, t)

\* initialize_database_and_scheduler: remove_all_jobs, the cleanup job, then
\* the interval job of every enabled source.
InitialJobs(m3u, epg, t) ==
    ScheduleAll(ScheduleAll({DailyCleanupJob}, m3u, "m3u", t), epg, "epg", t)

\* The process starts: the worker threads of an earlier process are gone.
initialize_database_and_scheduler ==
    /\ jobs' = InitialJobs(m3u_sources, epg_sources, now)
    /\ running' = {}
    /\ last' = Done("initialize_database_and_scheduler", 0, "started", {})
    /\ UNCHANGED <<catalog_vars, feed_vars, m3u_sources, epg_sources, now,
                   m3u_run, epg_run, released, sync_runs, workers>>

add_source(url) ==
    /\ NewId(m3u_sources) <= MaxSourceId
    /\ IF \E x \in m3u_sources : x.url = url
       THEN /\ UNCHANGED <<m3u_sources, jobs>>
            /\ last' = Done("add_source", url, "exists", {})
       ELSE LET new_source == Source(NewId(m3u_sources), url, TRUE, DefaultM3uHours, NoTime)
            IN  /\ m3u_sources' = m3u_sources \cup {new_source}
                /\ jobs' = schedule_source_refresh_job(jobs, new_source.id,
                              new_source.refresh_interval_hours, now)
                /\ last' = Done("add_source", url, "added", {})
    /\ UNCHANGED <<catalog_vars, feed_vars, epg_sources, now, run_vars, running>>

delete_source(source_id) ==
    /\ \E x \in m3u_sources : x.id = source_id
    /\ jobs' = RemoveJob(jobs, JobId("m3u_refresh", source_id))
    /\ m3u_sources' = {x \in m3u_sources : x.id # source_id}
    /\ last' = Done("delete_source", source_id, "deleted", {})
    /\ UNCHANGED <<catalog_vars, feed_vars, epg_sources, now, run_vars, running>>

toggle_source(source_id) ==
    /\ \E x \in m3u_sources : x.id = source_id
    /\ LET old    == RowOf(m3u_sources, source_id)
           source == [old EXCEPT !.enabled = ~old.enabled]
       IN  /\ m3u_sources' = (m3u_sources \ {old}) \cup {source}
           /\ jobs' = IF source.enabled
                      THEN schedule_source_refresh_job(jobs, source.id,
                              source.refresh_interval_hours, now)
                      ELSE RemoveJob(jobs, JobId("m3u_refresh", source_id))
           /\ last' = Done("toggle_source", source_id,
                           IF source.enabled THEN "enabled" ELSE "disabled", {})
    /\ UNCHANGED <<catalog_vars, feed_vars, epg_sources, now, run_vars, running>>

\* A force-refresh route that does not look at the source's enabled flag.
force_refresh_source_unchecked(source_id) ==
    /\ \E x \in m3u_sources : x.id = source_id
    /\ LET source == RowOf(m3u_sources, source_id)
       IN  /\ jobs' = SubmitManual(jobs, "m3u_refresh", source.id,
                                   "refresh_single_m3u_source", now)
           /\ last' = Done("force_refresh_source", source_id, "triggered", {})
    /\ UNCHANGED <<catalog_vars, feed_vars, m3u_sources, epg_sources, now,
                   run_vars, running>>

force_refresh_source(source_id) ==
    /\ \E x \in m3u_sources : x.id = source_id
    /\ LET source == RowOf(m3u_sources, source_id)
       IN  IF ~source.enabled
           THEN /\ UNCHANGED jobs
                /\ last' = Done("force_refresh_source", source_id, "disabled", {})
           ELSE /\ jobs' = SubmitManual(jobs, "m3u_refresh", source.id,
                                        "refresh_single_m3u_source", now)
                /\ last' = Done("force_refresh_source", source_id, "triggered", {})
    /\ UNCHANGED <<catalog_vars, feed_vars, m3u_sources, epg_sources, now,
                   run_vars, running>>

update_source_interval(source_id, interval) ==
    /\ \E x \in m3u_sources : x.id = source_id
    /\ LET old    == RowOf(m3u_sources, source_id)
           source == [old EXCEPT !.refresh_interval_hours = interval]
       IN  /\ m3u_sources' = (m3u_sources \ {old}) \cup {source}
           /\ jobs' = IF source.enabled
                      THEN schedule_source_refresh_job(jobs, source.id,
                              source.refresh_interval_hours, now)
                      ELSE jobs
           /\ last' = Done("update_source_interval", source_id,
                           IF source.enabled THEN "rescheduled" ELSE "disabled", {})
    /\ UNCHANGED <<catalog_vars, feed_vars, epg_sources, now, run_vars, running>>

add_epg_source(url) ==
    /\ NewId(epg_sources) <= MaxSourceId
    /\ IF \E x \in epg_sources : x.url = url
       THEN /\ UNCHANGED <<epg_sources, jobs>>
            /\ last' = Done("add_epg_source", url, "exists", {})
       ELSE LET new_source == Source(NewId(epg_sources), url, TRUE, DefaultEpgHours, NoTime)
            IN  /\ epg_sources' = epg_sources \cup {new_source}
                /\ jobs' = schedule_epg_refresh_job(jobs, new_source.id,
                              new_source.refresh_interval_hours, now)
                /\ last' = Done("add_epg_source", url, "added", {})
    /\ UNCHANGED <<catalog_vars, feed_vars, m3u_sources, now, run_vars, running>>

delete_epg_source(source_id) ==
    /\ \E x \in epg_sources : x.id = source_id
    /\ jobs' = RemoveJob(jobs, JobId("epg_refresh", source_id))
    /\ epg_sources' = {x \in epg_sources : x.id # source_id}
    /\ last' = Done("delete_epg_source", source_id, "deleted", {})
    /\ UNCHANGED <<catalog_vars, feed_vars, m3u_sources, now, run_vars, running>>

toggle_epg_source(source_id) ==
    /\ \E x \in epg_sources : x.id = source_id
    /\ LET old    == RowOf(epg_sources, source_id)
           source == [old EXCEPT !.enabled = ~old.enabled]
       IN  /\ epg_sources' = (epg_sources \ {old}) \cup {source}
           /\ jobs' = IF source.enabled
                      THEN schedule_epg_refresh_job(jobs, source.id,
                              source.refresh_interval_hours, now)
                      ELSE RemoveJob(jobs, JobId("epg_refresh", source_id))
           /\ last' = Done("toggle_epg_source", source_id,
                           IF source.enabled THEN "enabled" ELSE "disabled", {})
    /\ UNCHANGED <<catalog_vars, feed_vars, m3u_sources, now, run_vars, running>>

force_refresh_epg_source(source_id) ==
    /\ \E x \in epg_sources : x.id = source_id
    /\ LET source == RowOf(epg_sources, source_id)
       IN  IF ~source.enabled
           THEN /\ UNCHANGED jobs
                /\ last' = Done("force_refresh_epg_source", source_id, "disabled", {})
           ELSE /\ jobs' = SubmitManual(jobs, "epg_refresh", source.id,
                                        "refresh_single_epg_source", now)
                /\ last' = Done("force_refresh_epg_source", source_id, "triggered", {})
    /\ UNCHANGED <<catalog_vars, feed_vars, m3u_sources, epg_sources, now,
                   run_vars, running>>

update_epg_interval(source_id, interval) ==
    /\ \E x \in epg_sources : x.id = source_id
    /\ LET old    == RowOf(epg_sources, source_id)
           source == [old EXCEPT !.refresh_interval_hours = interval]
       IN  /\ epg_sources' = (epg_sources \ {old}) \cup {source}
           /\ jobs' = IF source.enabled
                      THEN schedule_epg_refresh_job(jobs, source.id,
                              source.refresh_interval_hours, now)
                      ELSE jobs
           /\ last' = Done("update_epg_interval", source_id,
                           IF source.enabled THEN "rescheduled" ELSE "disabled", {})
    /\ UNCHANGED <<catalog_vars, feed_vars, m3u_sources, now, run_vars, running>>

\* An hour passes.
tick ==
    /\ now < MaxClock
    /\ now' = now + 1
    /\ UNCHANGED <<catalog_vars, feed_vars, m3u_sources, epg_sources, jobs, run_vars,
                   running, last>>

\* An executor without the limit on the instances of a job.
CanSubmitAlways(run, job_id) == TRUE

\* The executor accepts a run while fewer than max_instances of the job run.
CanSubmit(run, job_id) ==
    Cardinality({r \in run : r.job = job_id}) < MaxInstances

\* The n-th instance of a job that is running.
Instance(run, j) ==
    [job |-> j.id, func |-> j.func, n |-> Cardinality({r \in run : r.job = j.id}) + 1]

\* The next fire time after t of an interval job that was due (coalesce).
NextFireTime(j, t) == j.next_run_time + ((t - j.next_run_time) \div j.hours + 1) * j.hours

\* An interval job is due: the scheduler re-arms it and hands a run to the
\* executor, which starts it or, at the instance limit, skips it.
fire_interval_job(j) ==
    /\ j \in jobs
    /\ j.trigger = "interval"
    /\ j.next_run_time <= now
    /\ jobs' = (jobs \ {j}) \cup {[j EXCEPT !.next_run_time = NextFireTime(j, now)]}
    /\ IF CanSubmit(running, j.id)
       THEN /\ running' = running \cup {Instance(running, j)}
            /\ last' = Done("fire_interval_job", j.id, "submitted", {})
       ELSE /\ UNCHANGED running
            /\ last' = Done("fire_interval_job", j.id, "skipped", {})
    /\ UNCHANGED <<catalog_vars, feed_vars, m3u_sources, epg_sources, now, run_vars>>

\* A manual refresh job is due at once and leaves the registry when it fires.
fire_date_job(j) ==
    /\ j \in jobs
    /\ j.trigger = "date"
    /\ j.func \in {"refresh_single_m3u_source", "refresh_single_epg_source"}
    /\ jobs' = jobs \ {j}
    /\ IF CanSubmit(running, j.id)
       THEN /\ running' = running \cup {Instance(running, j)}
            /\ last' = Done("fire_date_job", j.id, "submitted", {})
       ELSE /\ UNCHANGED running
            /\ last' = Done("fire_date_job", j.id, "skipped", {})
    /\ UNCHANGED <<catalog_vars, feed_vars, m3u_sources, epg_sources, now, run_vars>>

\* A running refresh ends.  No feed of this specification can be reached:
\* the run logs the failed download and returns.
refresh_job_ends(r) ==
    /\ r \in running
    /\ running' = running \ {r}
    /\ m3u_sources' = AfterDownloadFailed(DB, r.job.sid, now).m3u_sources
    /\ last' = Done(r.func, r.job.sid, "download_failed", {})
    /\ UNCHANGED <<catalog_vars, feed_vars, epg_sources, jobs, now, run_vars>>

----------------------------------------------------------------------------
(* Specification SpecSources: the administration of the sources and the    *)
(* job registry, from a start of the process on a store that holds one     *)
(* source of each kind or none.  The clock stands still.                   *)

InitSources ==
    /\ channels = {}
    /\ urls = {}
    /\ epg_data = {}
    /\ filters = {}
    /\ m3u_sources \in {{}, {Source(1, SrcUrl1, TRUE, DefaultM3uHours, NoTime)},
                            {Source(1, SrcUrl1, FALSE, DefaultM3uHours, NoTime)}}
    /\ epg_sources \in {{}, {Source(1, EpgUrl1, FALSE, DefaultEpgHours, NoTime)}}
    /\ jobs = InitialJobs(m3u_sources, epg_sources, 0)
    /\ no_epg_rule_active = TRUE
    /\ now = 0
    /\ m3u_feed = << >>
    /\ xmltv_feed = << >>
    /\ m3u_run = NoRun
    /\ epg_run = NoEpgRun
    /\ last = NoLast
    /\ released = NotRecorded
    /\ NoJobExecuting

NextSources ==
    \/ initialize_database_and_scheduler
    \/ \E u \in {SrcUrl1, SrcUrl2} : add_source(u)
    \/ \E x \in m3u_sources : delete_source(x.id)
    \/ \E x \in m3u_sources : toggle_source(x.id)
    \/ \E x \in m3u_sources : force_refresh_source(x.id)
    \/ \E x \in m3u_sources, h \in IntervalChoices : update_source_interval(x.id, h)
    \/ add_epg_source(EpgUrl1)
    \/ \E x \in epg_sources : delete_epg_source(x.id)
    \/ \E x \in epg_sources : toggle_epg_source(x.id)
    \/ \E x \in epg_sources : force_refresh_epg_source(x.id)
    \/ \E x \in epg_sources, h \in IntervalChoices : update_epg_interval(x.id, h)

SpecSources == InitSources /\ [][NextSources]_vars

----------------------------------------------------------------------------
(* Specification SpecExecutor: the scheduler's clock and executor with one *)
(* enabled source of each kind, the interval and manual-refresh routes.    *)

InitExecutor ==
    /\ channels = {}
    /\ urls = {}
    /\ epg_data = {}
    /\ filters = {}
    /\ m3u_sources = {Source(1, SrcUrl1, TRUE, DefaultM3uHours, NoTime)}
    /\ epg_sources = {Source(1, EpgUrl1, TRUE, DefaultEpgHours, NoTime)}
    /\ jobs = InitialJobs(m3u_sources, epg_sources, 0)
    /\ no_epg_rule_active = TRUE
    /\ now = 0
    /\ m3u_feed = << >>
    /\ xmltv_feed = << >>
    /\ m3u_run = NoRun
    /\ epg_run = NoEpgRun
    /\ last = NoLast
    /\ released = NotRecorded
    /\ NoJobExecuting

NextExecutor ==
    \/ \E x \in m3u_sources : force_refresh_source(x.id)
    \/ \E x \in m3u_sources, h \in IntervalChoices : update_source_interval(x.id, h)
    \/ \E x \in epg_sources : force_refresh_epg_source(x.id)
    \/ \E x \in epg_sources, h \in IntervalChoices : update_epg_interval(x.id, h)
    \/ tick
    \/ \E j \in jobs : fire_interval_job(j)
    \/ \E j \in jobs : fire_date_job(j)
    \/ \E r \in running : refresh_job_ends(r)

SpecExecutor == InitExecutor /\ [][NextExecutor]_vars

----------------------------------------------------------------------------
(* Properties of the executor (SpecExecutor) and of the source routes      *)
(* (SpecSources).                                                          *)

IntervalJobs(js) == {j \in js : j.trigger = "interval"}

RefreshJobId(x) ==
    \/ \E sid \in 1..(MaxSourceId + 1) : x = JobId("m3u_refresh", sid)
    \/ \E sid \in 1..(MaxSourceId + 1) : x = JobId("epg_refresh", sid)

Rescheduled == last.op \in {"update_source_interval", "update_epg_interval"}
               /\ last.outcome = "rescheduled"

\* The interval job of the source that the last route worked on.
JobOfLast ==
    {j \in jobs : j.id = JobId(IF last.op = "update_source_interval"
                               THEN "m3u_refresh" ELSE "epg_refresh", last.arg)}

\* C13: the registry holds at most one interval job per source id, under
\* m3u_refresh_<id> or epg_refresh_<id>; when a source is re-scheduled, its
\* job is the one with the new interval.
C13_OneIntervalJobPerSource ==
    /\ \A j \in IntervalJobs(jobs) : RefreshJobId(j.id)
    /\ \A j1 \in jobs : \A j2 \in jobs : (j1.id = j2.id) => (j1 = j2)
    /\ Rescheduled =>
          \E x \in (IF last.op = "update_source_interval" THEN m3u_sources
                    ELSE epg_sources) :
              /\ x.id = last.arg
              /\ x.refresh_interval_hours \in IntervalChoices
              /\ JobOfLast = {[id |-> JobId(IF last.op = "update_source_interval"
                                            THEN "m3u_refresh" ELSE "epg_refresh", x.id),
                               func |-> IF last.op = "update_source_interval"
                                        THEN "refresh_single_m3u_source"
                                        ELSE "refresh_single_epg_source",
                               trigger |-> "interval",
                               hours |-> x.refresh_interval_hours,
                               next_run_time |-> now + x.refresh_interval_hours]}

\* C13 witness: an enabled source, scheduled with the default interval, was
\* re-scheduled with another one.
C13_Witness ==
    /\ Rescheduled
    /\ last.op = "update_source_interval"
    /\ \E j \in jobs : j.id = JobId("m3u_refresh", last.arg) /\ j.hours # DefaultM3uHours

HasIntervalJob(kind, sid) ==
    \E j \in IntervalJobs(jobs) : j.id = JobId(kind, sid)

\* C14: after the scheduler's initialization and after every operation on
\* the sources, an interval job exists for a source id if and only if the
\* source exists and is enabled.
C14_IntervalJobIffEnabledSource ==
    /\ \A sid \in 1..(MaxSourceId + 1) :
          HasIntervalJob("m3u_refresh", sid) <=>
              \E x \in m3u_sources : x.id = sid /\ x.enabled
    /\ \A sid \in 1..(MaxSourceId + 1) :
          HasIntervalJob("epg_refresh", sid) <=>
              \E x \in epg_sources : x.id = sid /\ x.enabled
    /\ \A j \in IntervalJobs(jobs) : RefreshJobId(j.id)

\* C14 witness: a source was disabled and lost its job while another source
\* is enabled and keeps its own.
C14_Witness ==
    /\ last.op = "toggle_source"
    /\ last.outcome = "disabled"
    /\ ~HasIntervalJob("m3u_refresh", last.arg)
    /\ \E x \in m3u_sources : x.id # last.arg /\ x.enabled
                              /\ HasIntervalJob("m3u_refresh", x.id)

ManualKind(op) ==
    IF op = "force_refresh_source" THEN "manual_m3u_refresh" ELSE "manual_epg_refresh"

\* C15: a manual refresh is submitted as a one-shot job of its own, under
\* manual_m3u_refresh_<id> or manual_epg_refresh_<id>: the submission leaves
\* every interval job and its next fire time as they were, and the
\* executor starts the manual run whenever no run of the manual job itself
\* executes, also while the interval job of the source is running.
C15_ManualRefreshIsSeparate ==
    [][ /\ (last'.op \in {"force_refresh_source", "force_refresh_epg_source"}
            /\ last'.outcome = "triggered") =>
               /\ IntervalJobs(jobs') = IntervalJobs(jobs)
               /\ \E j \in jobs' : /\ j.id = JobId(ManualKind(last'.op), last'.arg)
                                   /\ j.trigger = "date"
                                   /\ jobs' \ {j} = {x \in jobs : x.id # j.id}
        /\ (last'.op = "fire_date_job" /\ <<jobs, running>>' # <<jobs, running>>) =>
               /\ (last'.outcome = "submitted") <=>
                      ~\E r \in running : r.job = last'.arg
               /\ (last'.outcome = "submitted") =>
                      running' = running \cup
                          {[job |-> last'.arg, n |-> 1,
                            func |-> IF last'.arg.kind = "manual_m3u_refresh"
                                     THEN "refresh_single_m3u_source"
                                     ELSE "refresh_single_epg_source"]}
      ]_vars

\* C15 witness: the manual run of a source was started while the run of
\* the source's interval job was executing.
C15_Witness ==
    /\ last.op = "fire_date_job"
    /\ last.outcome = "submitted"
    /\ last.arg = JobId("manual_m3u_refresh", 1)
    /\ \E r \in running : r.job = JobId("manual_m3u_refresh", 1)
    /\ \E r \in running : r.job = JobId("m3u_refresh", 1)
    /\ \E j \in IntervalJobs(jobs) : j.id = JobId("m3u_refresh", 1)

----------------------------------------------------------------------------
(* The State Synchronizer as the worker threads run it.  The function      *)
(* reads the enabled filters, the EPG tvg_ids and the channels (lines      *)
(* 97-108), computes the two id lists in memory (113-136) and then issues  *)
(* the two bulk updates and the commit (138-147).  The reads are plain     *)
(* SELECTs outside a transaction, so another connection may commit between *)
(* the reads and the updates: a run is two steps.                          *)

\* UPDATE channels SET enabled = ... WHERE id IN (...), twice, and commit.
ApplyUpdates(chs, off, on) ==
    {IF c.id \in off THEN [c EXCEPT !.enabled = FALSE]
     ELSE IF c.id \in on THEN [c EXCEPT !.enabled = TRUE]
     ELSE c : c \in chs}

\* The scheduler fires a pending synchronisation job; the executor starts
\* it unless an instance of the job id is running, and the run reads.
sync_job_reads(j) ==
    /\ j \in jobs
    /\ j.trigger = "date"
    /\ j.func \in {"apply_all_filters_job", "disable_channels_without_epg"}
    /\ jobs' = jobs \ {j}
    /\ IF CanSubmit(running, j.id)
       THEN /\ running' = running \cup {Instance(running, j)}
            /\ sync_runs' =
                 [runs |-> sync_runs.runs \cup
                           {[job |-> j.id,
                             off |-> ChannelsToDisable(DB, no_epg_rule_active),
                             on  |-> ChannelsToEnable(DB, no_epg_rule_active)]},
                  started |-> Max(1, sync_runs.started),
                  last_read |-> DB]
            /\ last' = Done("fire_date_job", j.id, "submitted", {})
       ELSE /\ UNCHANGED <<running, sync_runs>>
            /\ last' = Done("fire_date_job", j.id, "skipped", {})
    /\ UNCHANGED <<catalog_vars, feed_vars, m3u_sources, epg_sources, now,
                   m3u_run, epg_run, released, workers>>

\* The run issues its updates, commits and ends.
sync_job_writes(run) ==
    /\ run \in sync_runs.runs
    /\ channels' = ApplyUpdates(channels, run.off, run.on)
    /\ sync_runs' = [sync_runs EXCEPT !.runs = @ \ {run}]
    /\ running' = {r \in running : r.job # run.job}
    /\ last' = Done("synchronize_channel_states", run.job.kind, "done",
                    run.off \cup run.on)
    /\ UNCHANGED <<urls, epg_data, filters, m3u_sources, epg_sources, jobs,
                   feed_vars, now, m3u_run, epg_run, released, workers>>

----------------------------------------------------------------------------
(* Specification SpecRace: the filter routes and the synchronisation jobs  *)
(* they submit, each job run in two steps by a worker thread.              *)

InitRace ==
    /\ channels = SyncChannels
    /\ urls = SyncUrls
    /\ epg_data = SyncEpgRows
    /\ filters = {}
    /\ m3u_sources = {}
    /\ epg_sources = {}
    /\ jobs = {DailyCleanupJob}
    /\ no_epg_rule_active \in BOOLEAN
    /\ now = 0
    /\ m3u_feed = << >>
    /\ xmltv_feed = << >>
    /\ m3u_run = NoRun
    /\ epg_run = NoEpgRun
    /\ last = NoLast
    /\ released = NotRecorded
    /\ NoJobExecuting

NextRace ==
    \/ \E e \in BOOLEAN : manage_filters(PatFR, e)
    \/ \E f \in filters : delete_filter(f.id)
    \/ \E f \in filters : toggle_filter(f.id)
    \/ apply_all_filters
    \/ apply_no_epg_disable
    \/ \E j \in jobs : sync_job_reads(j)
    \/ \E run \in sync_runs.runs : sync_job_writes(run)

SpecRace == InitRace /\ [][NextRace]_vars

\* No job is pending or running.
SyncQuiescent ==
    /\ running = {}
    /\ sync_runs.runs = {}
    /\ \A j \in jobs : j.trigger # "date"

\* C16: in every interleaving of Synchronizer runs and filter mutations,
\* once every job has finished and the Synchronizer run that started last
\* (having read the final filters and EPG entries) has completed, every
\* channel's enabled flag equals the value computed from the final filters,
\* EPG entries and no-EPG flag.
C16_ConcurrentSyncConverges ==
    ( /\ SyncQuiescent
      /\ sync_runs.started > 0
      /\ sync_runs.last_read.filters = filters
      /\ sync_runs.last_read.epg_data = epg_data )
    => \A c \in channels :
          c.enabled <=> ~(MatchesEnabledFilter(c)
                          \/ (no_epg_rule_active /\ HasNoEpgEntry(c)))

----------------------------------------------------------------------------
(* Two refresh jobs of one M3U source side by side: the interval job and   *)
(* the manual job have different job ids, so the executor runs both.  A    *)
(* batch (scheduler_jobs.py lines 222-280) is two steps: the               *)
(* possible_matches query with its selectinload, a plain SELECT; then the  *)
(* loop over the batch's keys, whose first flush opens the write           *)
(* transaction, and the commit.  Another connection may commit between     *)
(* the two.                                                                *)

\* A worker of the executor starts the job: fetch, header check and parse.
m3u_worker_starts(k, src) ==
    /\ workers[k].phase \in {"idle", "done"}
    /\ now < MaxRuns
    /\ now' = now + 1
    /\ HasM3UHeader(m3u_feed[src.url])
    /\ workers' = [workers EXCEPT ![k] =
                      [phase |-> "batches", source_id |-> src.id,
                       parsed |-> ParseM3U(m3u_feed[src.url]), next |-> 1,
                       start_time |-> now + 1, reading |-> TRUE, seen |-> EmptyDB]]
    /\ UNCHANGED <<catalog_vars, feed_vars, m3u_sources, epg_sources, jobs,
                   m3u_run, epg_run, released, sync_runs, running, last>>

\* possible_matches = db.session.query(Channel)...all(): what the batch sees.
m3u_worker_reads(k) ==
    /\ workers[k].phase = "batches"
    /\ workers[k].reading
    /\ workers[k].next <= Len(workers[k].parsed)
    /\ workers' = [workers EXCEPT ![k].reading = FALSE, ![k].seen = DB]
    /\ UNCHANGED <<catalog_vars, feed_vars, m3u_sources, epg_sources, jobs, now,
                   m3u_run, epg_run, released, sync_runs, running, last>>

\* One batch on the rows the query returned (seen), written to the store
\* as it is now.
ProcessBatchSeen(seen, db, parsed, lo, rank, t) ==
    LET hi == lo + BatchSize - 1
        batch_keys == {parsed[i].key : i \in {j \in lo..hi : j <= Len(parsed)}}
        possible == PossibleMatches(seen, batch_keys)
        st0 == [db      |-> db,
                by_tvg  |-> DictBy({c \in possible : Truthy(c.tvg_id)}, rank,
                                   [c \in possible |-> c.tvg_id]),
                by_name |-> DictBy(possible, rank, [c \in possible |-> c.name]),
                loaded  |-> [cid \in {c.id : c \in possible} |->
                                {u.id : u \in {x \in seen.urls : x.channel_id = cid}}]]
    IN  ProcessItems(st0, parsed, lo, hi, t).db

\* The loop over the batch's keys and db.session.commit().
m3u_worker_commits(k, rank) ==
    /\ workers[k].phase = "batches"
    /\ ~workers[k].reading
    /\ LET w  == workers[k]
           db == ProcessBatchSeen(w.seen, DB, w.parsed, w.next, rank, w.start_time)
       IN  /\ channels' = db.channels
           /\ urls' = db.urls
    /\ workers' = [workers EXCEPT ![k].reading = TRUE, ![k].seen = EmptyDB,
                                  ![k].next = @ + BatchSize]
    /\ UNCHANGED <<epg_data, filters, feed_vars, m3u_sources, epg_sources, jobs, now,
                   m3u_run, epg_run, released, sync_runs, running, last>>

\* After the last batch: last_checked and the State Synchronizer run.
m3u_worker_finishes(k) ==
    /\ workers[k].phase = "batches"
    /\ workers[k].reading
    /\ workers[k].next > Len(workers[k].parsed)
    /\ LET db == [DB EXCEPT !.m3u_sources =
                     SetLastChecked(m3u_sources, workers[k].source_id,
                                    workers[k].start_time)]
       IN  /\ m3u_sources' = db.m3u_sources
           /\ channels' = SynchronizeChannelStatesLogic(db, no_epg_rule_active).channels
           /\ last' = Done("refresh_single_m3u_source", workers[k].source_id, "done",
                           SyncWritten(db, no_epg_rule_active))
    /\ workers' = [workers EXCEPT ![k].phase = "done"]
    /\ UNCHANGED <<urls, epg_data, filters, feed_vars, epg_sources, jobs, now,
                   m3u_run, epg_run, released, sync_runs, running>>

----------------------------------------------------------------------------
(* Specification SpecTwoRuns: the interval job and the manual job of one   *)
(* source, on a feed of three entries with three keys, three names and two *)
(* batches, starting from an empty catalog.                                *)

EntryT1 == Attrs(TvgA, None, NameFR, None, None, None)
EntryT2 == Attrs(None, None, NameX, None, None, None)
EntryT3 == Attrs(TvgB, None, NameBbc, None, None, None)

TwoRunsBody ==
    <<HeaderLine>> \o Entry(EntryT1, Url1) \o Entry(EntryT2, Url2) \o Entry(EntryT3, Url1)

InitTwoRuns ==
    /\ channels = {}
    /\ urls = {}
    /\ epg_data = {}
    /\ filters = {}
    /\ m3u_sources = {Source(1, SrcUrl1, TRUE, DefaultM3uHours, NoTime)}
    /\ epg_sources = {}
    /\ jobs = InitialJobs(m3u_sources, epg_sources, 0)
    /\ no_epg_rule_active = FALSE
    /\ now = 0
    /\ m3u_feed = (SrcUrl1 :> TwoRunsBody)
    /\ xmltv_feed = << >>
    /\ m3u_run = NoRun
    /\ epg_run = NoEpgRun
    /\ last = NoLast
    /\ released = NotRecorded
    /\ NoJobExecuting

NextTwoRuns ==
    \/ \E k \in RefreshKinds, src \in m3u_sources : m3u_worker_starts(k, src)
    \/ \E k \in RefreshKinds : m3u_worker_reads(k)
    \/ \E k \in RefreshKinds, rank \in RowOrders : m3u_worker_commits(k, rank)
    \/ \E k \in RefreshKinds : m3u_worker_finishes(k)

SpecTwoRuns == InitTwoRuns /\ [][NextTwoRuns]_vars

\* The key under which a feed entry would find the channel.
KeyOfChannel(c) == IF Truthy(c.tvg_id) THEN c.tvg_id ELSE c.name

\* C17: when the manual and the interval refresh of one M3U source run
\* side by side on the same feed, no interleaving of their batches leaves
\* two Channels for one key or two Url rows with one url under one Channel.
C17_TwoRunsNoDuplicates ==
    /\ \A c \in channels : \A d \in channels :
          (KeyOfChannel(c) = KeyOfChannel(d)) => (c.id = d.id)
    /\ \A u \in urls : \A v \in urls :
          (u.channel_id = v.channel_id /\ u.url = v.url) => (u.id = v.id)

----------------------------------------------------------------------------
(* The cleanup job, scheduled_cleanup_job (scheduler_jobs.py 390-406).     *)

\* CHANNEL_DATA_RETENTION_DAYS (3 days) and EPG_DATA_RETENTION_HOURS (72
\* hours), in ticks of the model's clock.
Retention == 1

\* column < cutoff: never true of a NULL.
Before(t, cutoff) == t # NoTime /\ t < cutoff

\* A cleanup that deletes the Url rows whatever their age.
StaleUrlsOfAnyAge(rows, cutoff) == rows

\* Url.query.filter(Url.last_seen < channel_cutoff).delete()
StaleUrls(rows, cutoff) == {u \in rows : Before(u.last_seen, cutoff)}

\* A cleanup that deletes no channel.
NoOrphanChannels(chans, rows, cutoff) == {}

\* The channels without a Url row whose last_seen is before the cutoff.
OrphanChannels(chans, rows, cutoff) ==
    {c \in chans : /\ ~\E u \in rows : u.channel_id = c.id
                   /\ Before(c.last_seen, cutoff)}

scheduled_cleanup_job ==
    /\ DailyCleanupJob \in jobs
    /\ LET channel_cutoff == now - Retention
           epg_cutoff     == now - Retention
           kept           == urls \ StaleUrls(urls, channel_cutoff)
           orphans        == OrphanChannels(channels, kept, channel_cutoff)
       IN  /\ urls' = kept
           /\ channels' = channels \ orphans
           /\ epg_data' = {e \in epg_data : ~Before(e.end_time, epg_cutoff)}
           /\ last' = Done("scheduled_cleanup_job", {u.channel_id : u \in urls \ kept},
                           "done", {c.id : c \in orphans})
    /\ UNCHANGED <<filters, m3u_sources, epg_sources, jobs, feed_vars, now, m3u_run,
                   epg_run, released, exec_vars>>

\* The publisher of a feed changes what the url serves.
feed_changes(url, body) ==
    /\ url \in DOMAIN m3u_feed
    /\ m3u_feed[url] # body
    /\ m3u_feed' = [m3u_feed EXCEPT ![url] = body]
    /\ UNCHANGED <<catalog_vars, m3u_sources, epg_sources, jobs, no_epg_rule_active,
                   xmltv_feed, now, m3u_run, epg_run, released, exec_vars, last>>

----------------------------------------------------------------------------
(* Specification SpecCleanup: ingestions of a feed that changes, the clock *)
(* and the cleanup job.                                                    *)

CleanupBodies ==
    { <<HeaderLine>> \o Entry(EntryT1, Url1),
      <<HeaderLine>> \o Entry(EntryT1, Url2),
      <<HeaderLine>> \o Entry(EntryT2, Url2) \o Entry(EntryT1, Url1)
                     \o Entry(EntryT1, Url2),
      <<HeaderLine>> \o Entry(EntryA3, Url1) \o Entry(EntryA1, Url1) }

InitCleanup ==
    /\ channels = {}
    /\ urls = {}
    /\ epg_data \in {{}, {EpgRow(1, TvgA, Title1, 0, 1), EpgRow(2, TvgA, Title1, 2, 3)}}
    /\ filters = {}
    /\ m3u_sources = {Source(1, SrcUrl1, TRUE, DefaultM3uHours, NoTime)}
    /\ epg_sources = {}
    /\ jobs = InitialJobs(m3u_sources, epg_sources, 0)
    /\ no_epg_rule_active = FALSE
    /\ now = 0
    /\ \E b \in CleanupBodies : m3u_feed = (SrcUrl1 :> b)
    /\ xmltv_feed = << >>
    /\ m3u_run = NoRun
    /\ epg_run = NoEpgRun
    /\ last = NoLast
    /\ released = NotRecorded
    /\ NoJobExecuting

NextCleanup ==
    \/ \E src \in m3u_sources, ok \in BOOLEAN : refresh_m3u_start(src, ok)
    \/ \E rank \in RowOrders : refresh_m3u_batch(rank)
    \/ refresh_m3u_finish
    \/ \E b \in CleanupBodies : feed_changes(SrcUrl1, b)
    \/ tick
    \/ scheduled_cleanup_job

SpecCleanup == InitCleanup /\ [][NextCleanup]_vars

\* C18: in every committed state that M3U ingestions and cleanup jobs
\* reach, every Channel has at least one Url: a cleanup run that deletes
\* all Urls of a Channel deletes the Channel too.
C18_EveryChannelHasUrl ==
    \A c \in channels : \E u \in urls : u.channel_id = c.id

\* C18 witness: a cleanup run deleted stale Urls of two Channels; it deleted
\* the one that was left without Urls and kept the other with a newer Url.
C18_Witness ==
    /\ last.op = "scheduled_cleanup_job"
    /\ last.written # {}
    /\ \E id \in last.arg : id \notin last.written /\ \E c \in channels : c.id = id

\* The urls of the feed that the run in progress parsed.
FeedUrls(run) == UNION {run.parsed[i].urls : i \in 1..Len(run.parsed)}

\* C19: M3U ingestion deletes no Url and no Channel; a Url whose url is not
\* in the feed keeps its last_seen, and only Urls whose url is in the feed
\* get the run's start time as last_seen.
C19_IngestionDeletesNothing ==
    [][ (m3u_run' # m3u_run) =>
          /\ \A c \in channels : \E d \in channels' : d.id = c.id
          /\ \A u \in urls :
                \E v \in urls' :
                    /\ v.id = u.id /\ v.url = u.url /\ v.channel_id = u.channel_id
                    /\ (u.url \notin FeedUrls(m3u_run') => v.last_seen = u.last_seen)
                    /\ v.last_seen \in {u.last_seen, m3u_run'.start_time}
          /\ \A v \in urls' :
                (\A u \in urls : u.id # v.id) =>
                    v.url \in FeedUrls(m3u_run') /\ v.last_seen = m3u_run'.start_time
      ]_vars

\* C19 witness: a second run on a changed feed ended; a Url of the first
\* run that the feed no longer lists is still there with its old
\* last_seen, beside a Url of the feed stamped with the run's start time.
C19_Witness ==
    /\ m3u_run.phase = "done"
    /\ \E u \in urls : /\ u \in m3u_run.pre.urls
                       /\ u.url \notin FeedUrls(m3u_run)
                       /\ u.last_seen < m3u_run.start_time
    /\ \E u \in urls : /\ u.url \in FeedUrls(m3u_run)
                       /\ u.last_seen = m3u_run.start_time

----------------------------------------------------------------------------
(* A batch that fails.  refresh_single_m3u_source has no try around a      *)
(* batch (lines 222-280): an exception raised by a query, a flush or the   *)
(* commit leaves the function and the app context, whose teardown removes  *)
(* the session and so rolls back what the batch had flushed.               *)

\* A failure that leaves the rows of the batch's first key in the store.
BatchHalfWritten(db, parsed, lo, rank, t) ==
    ProcessBatch(db, SubSeq(parsed, 1, lo), lo, rank, t)

\* The store after the session's rollback.
BatchRolledBack(db, parsed, lo, rank, t) == db

refresh_m3u_batch_fails(rank) ==
    /\ m3u_run.phase = "batches"
    /\ m3u_run.next <= Len(m3u_run.parsed)
    /\ LET db == BatchRolledBack(DB, m3u_run.parsed, m3u_run.next, rank,
                                 m3u_run.start_time)
       IN  /\ channels' = db.channels
           /\ urls' = db.urls
    /\ m3u_run' = [m3u_run EXCEPT !.phase = "failed"]
    /\ last' = Done("refresh_single_m3u_source", m3u_run.source_id, "exception", {})
    /\ UNCHANGED <<epg_data, filters, m3u_sources, epg_sources, jobs, feed_vars, now,
                   epg_run, released, exec_vars>>

----------------------------------------------------------------------------
(* Specification SpecBatchFail: runs of one source on a feed of two        *)
(* batches, with a filter that matches one of its channels; any batch may  *)
(* fail.                                                                   *)

BatchFailBodies ==
    { TwoRunsBody,
      <<HeaderLine>> \o Entry(EntryT3, Url2) \o Entry(EntryT1, Url2)
                     \o Entry(EntryT2, Url1),
      <<HeaderLine>> \o Entry(EntryT2, Url1) }

InitBatchFail ==
    /\ channels = {}
    /\ urls = {}
    /\ epg_data = {}
    /\ filters = {[id |-> 1, pattern |-> PatFR, enabled |-> TRUE]}
    /\ m3u_sources = {Source(1, SrcUrl1, TRUE, DefaultM3uHours, NoTime)}
    /\ epg_sources = {}
    /\ jobs = InitialJobs(m3u_sources, epg_sources, 0)
    /\ no_epg_rule_active = FALSE
    /\ now = 0
    /\ \E b \in BatchFailBodies : m3u_feed = (SrcUrl1 :> b)
    /\ xmltv_feed = << >>
    /\ m3u_run = NoRun
    /\ epg_run = NoEpgRun
    /\ last = NoLast
    /\ released = NotRecorded
    /\ NoJobExecuting

NextBatchFail ==
    \/ \E src \in m3u_sources, ok \in BOOLEAN : refresh_m3u_start(src, ok)
    \/ \E rank \in RowOrders : refresh_m3u_batch(rank)
    \/ \E rank \in RowOrders : refresh_m3u_batch_fails(rank)
    \/ refresh_m3u_finish
    \/ \E b \in BatchFailBodies : feed_changes(SrcUrl1, b)

SpecBatchFail == InitBatchFail /\ [][NextBatchFail]_vars

\* The parsed item's Channel and Urls are in the store, stamped by the run.
ItemPersisted(chans, rows, run, i) ==
    \E c \in chans :
        /\ KeyOfChannel(c) = run.parsed[i].key
        /\ c.last_seen = run.start_time
        /\ \A url \in run.parsed[i].urls :
              \E u \in rows : /\ u.channel_id = c.id /\ u.url = url
                              /\ u.last_seen = run.start_time

\* C20: ingestion commits batch by batch.  When batch k fails, the batches
\* before it stay persisted, nothing of batch k persists, and the job ends
\* there: no later batch is processed (nor last_checked set, nor the
\* Synchronizer run).
C20_FailedBatchRollsBackAlone ==
    [][ /\ (m3u_run.phase = "batches" /\ m3u_run'.phase = "failed") =>
              /\ DBNext = DB
              /\ m3u_run'.next = m3u_run.next
        /\ (m3u_run'.phase = "failed") =>
              /\ \A i \in 1..Len(m3u_run'.parsed) :
                    (i < m3u_run'.next) => ItemPersisted(channels', urls', m3u_run', i)
              /\ ~m3u_run'.synced
              /\ \A x \in m3u_sources' :
                    x.id = m3u_run'.source_id => x.last_checked # m3u_run'.start_time
        /\ (m3u_run.phase = "failed" /\ m3u_run'.start_time = m3u_run.start_time) =>
              /\ DBNext = DB
              /\ m3u_run' = m3u_run
      ]_vars

\* C20 witness: the second batch of a run failed after the first batch had
\* been committed, and a channel of the first batch that the filter matches
\* is still enabled.
C20_Witness ==
    /\ m3u_run.phase = "failed"
    /\ m3u_run.next > 1
    /\ m3u_run.next <= Len(m3u_run.parsed)
    /\ ItemPersisted(channels, urls, m3u_run, 1)
    /\ \E c \in channels : c.enabled /\ MatchesEnabledFilter(c)
    /\ Cardinality(channels) < Len(m3u_run.parsed)

----------------------------------------------------------------------------
(* The end of the M3U refresh job statement by statement: lines 282-285    *)
(* (source = M3uSource.query.get(source_id); last_checked; commit), then   *)
(* line 288 (the State Synchronizer).  The source's row may have been      *)
(* deleted by the admin while the job ran.                                 *)

\* A job that stamps last_checked as soon as the feed is parsed.
refresh_m3u_stamp_early ==
    /\ m3u_run.phase = "batches"
    /\ m3u_sources' = SetLastChecked(m3u_sources, m3u_run.source_id, m3u_run.start_time)
    /\ m3u_run' = [m3u_run EXCEPT !.phase = "stamped"]
    /\ UNCHANGED <<catalog_vars, epg_sources, jobs, feed_vars, now, epg_run,
                   released, exec_vars, last>>

\* Lines 282-285, reached when the loop over the batches is over.
refresh_m3u_stamp ==
    /\ m3u_run.phase = "batches"
    /\ m3u_run.next > Len(m3u_run.parsed)
    /\ m3u_sources' = SetLastChecked(m3u_sources, m3u_run.source_id, m3u_run.start_time)
    /\ m3u_run' = [m3u_run EXCEPT !.phase = "stamped"]
    /\ UNCHANGED <<catalog_vars, epg_sources, jobs, feed_vars, now, epg_run,
                   released, exec_vars, last>>

\* Line 288.
refresh_m3u_sync ==
    /\ m3u_run.phase = "stamped"
    /\ channels' = SynchronizeChannelStatesLogic(DB, no_epg_rule_active).channels
    /\ last' = Done("refresh_single_m3u_source", m3u_run.source_id, "done",
                    SyncWritten(DB, no_epg_rule_active))
    /\ m3u_run' = [m3u_run EXCEPT !.phase = "done", !.synced = TRUE]
    /\ UNCHANGED <<urls, epg_data, filters, m3u_sources, epg_sources, jobs,
                   feed_vars, now, epg_run, released, exec_vars>>

----------------------------------------------------------------------------
(* Specification SpecOrder: runs of one source whose fetch, header or any  *)
(* batch may fail, on feeds of one and two batches; the admin may delete   *)
(* the source at any moment.                                               *)

OrderBodies == BatchFailBodies \cup {Entry(EntryT2, Url1)}

InitOrder ==
    /\ channels = {}
    /\ urls = {}
    /\ epg_data = {}
    /\ filters = {[id |-> 1, pattern |-> PatFR, enabled |-> TRUE]}
    /\ m3u_sources = {Source(1, SrcUrl1, TRUE, DefaultM3uHours, NoTime)}
    /\ epg_sources = {}
    /\ jobs = InitialJobs(m3u_sources, epg_sources, 0)
    /\ no_epg_rule_active = FALSE
    /\ now = 0
    /\ \E b \in OrderBodies : m3u_feed = (SrcUrl1 :> b)
    /\ xmltv_feed = << >>
    /\ m3u_run = NoRun
    /\ epg_run = NoEpgRun
    /\ last = NoLast
    /\ released = NotRecorded
    /\ NoJobExecuting

NextOrder ==
    \/ \E src \in m3u_sources, ok \in BOOLEAN : refresh_m3u_start(src, ok)
    \/ \E rank \in RowOrders : refresh_m3u_batch(rank)
    \/ \E rank \in RowOrders : refresh_m3u_batch_fails(rank)
    \/ refresh_m3u_stamp
    \/ refresh_m3u_sync
    \/ \E x \in m3u_sources : delete_source(x.id)

SpecOrder == InitOrder /\ [][NextOrder]_vars

\* The job's statement at lines 282-285 changed a source row in this step.
LastCheckedWritten ==
    \E x \in m3u_sources, y \in m3u_sources' :
        x.id = y.id /\ x.last_checked # y.last_checked

\* The enabled flags of the catalog.
EnabledFlags(chans) == {<<c.id, c.enabled>> : c \in chans}

\* C21: a run writes last_checked only when every batch has committed, and
\* runs the State Synchronizer only after the last_checked statement; a run
\* that ends on a failed fetch, a bad header or a failed batch writes no
\* last_checked, changes no enabled flag and takes no further step.
C21_StampThenSyncOnlyAfterBatches ==
    [][ /\ LastCheckedWritten =>
              /\ m3u_run.phase = "batches"
              /\ m3u_run.next > Len(m3u_run.parsed)
              /\ \A i \in 1..Len(m3u_run.parsed) :
                    ItemPersisted(channels, urls, m3u_run, i)
              /\ ~m3u_run.synced /\ ~m3u_run'.synced
              /\ m3u_sources' =
                    SetLastChecked(m3u_sources, m3u_run.source_id, m3u_run.start_time)
        /\ (m3u_run'.synced /\ ~m3u_run.synced) =>
              /\ m3u_run.phase = "stamped"
              /\ m3u_run'.start_time = m3u_run.start_time
              /\ \A x \in m3u_sources :
                    x.id = m3u_run.source_id => x.last_checked = m3u_run.start_time
        /\ (m3u_run' # m3u_run /\ m3u_run'.phase \in {"aborted", "failed"}) =>
              /\ m3u_sources' = m3u_sources
              /\ EnabledFlags(channels') = EnabledFlags(channels)
              /\ ~m3u_run'.synced
        /\ (m3u_run.phase \in {"aborted", "failed"}
              /\ m3u_run'.start_time = m3u_run.start_time) =>
              /\ m3u_run' = m3u_run
              /\ ~LastCheckedWritten
              /\ channels' = channels
      ]_vars

\* C21 witness: a run of two batches has ended: its source carries the
\* run's start time and the Synchronizer it ran disabled a channel.
C21_Witness ==
    /\ m3u_run.phase = "done" /\ m3u_run.synced
    /\ Len(m3u_run.parsed) > BatchSize
    /\ \E x \in m3u_sources :
          x.id = m3u_run.source_id /\ x.last_checked = m3u_run.start_time
    /\ last.written # {}
    /\ \E c \in channels : ~c.enabled

----------------------------------------------------------------------------
(* Matching of an M3U entry against the catalog (SpecM3U).                 *)

\* A step that processed and committed one batch.
BatchCommitted ==
    m3u_run.phase = "batches" /\ m3u_run'.next = m3u_run.next + BatchSize

\* C22: when a batch starts with an entry that has tvg_id T and name N, and
\* the catalog holds a Channel named N with a null tvg_id and no Channel with
\* tvg_id T, the batch leaves that Channel with tvg_id T and the run's start
\* time as last_seen, and creates no Channel with tvg_id T; no batch changes
\* a tvg_id that was set.
C22_NameMatchBackfillsTvgId ==
    [][ BatchCommitted =>
          LET item == m3u_run.parsed[m3u_run.next]
              T    == item.attrs.tvg_id
              N    == ResolvedName(item.attrs)
              held == {c \in channels : c.name = N /\ c.tvg_id = None}
          IN  /\ (Truthy(T) /\ held # {} /\ ~\E d \in channels : d.tvg_id = T) =>
                    /\ \E c \in held, x \in channels' :
                          /\ x.id = c.id
                          /\ x.tvg_id = T
                          /\ x.last_seen = m3u_run.start_time
                    /\ {x.id : x \in channels'} = {c.id : c \in channels}
              /\ \A c \in channels, x \in channels' :
                    (x.id = c.id /\ Truthy(c.tvg_id)) => x.tvg_id = c.tvg_id
      ]_vars

----------------------------------------------------------------------------
(* Specification SpecMatch: a catalog of three ingested channels (tvg_id   *)
(* A; no tvg_id; tvg_id b with channel number 7), an M3U source whose      *)
(* entries carry the tvg_id a, and an XMLTV source whose channel elements  *)
(* carry the id a, a name that normalises to a Channel's name, or a name   *)
(* that starts with a channel number.                                      *)

Name7Q == <<"7"," ","Q">>

MatchBodies ==
    { <<HeaderLine>> \o Entry(EntryA1, Url1),
      <<HeaderLine>> \o Entry(EntryB1, Url2),
      <<HeaderLine>> \o Entry(EntryA3, Url2) \o Entry(EntryA1, Url1) }

MatchNodes ==
    { XmlChannel(TvgA, << >>, None),
      XmlChannel(TvgQ, <<"b","-","B","c">>, Url2),
      XmlChannel(TvgZ, Name7Q, None) }

RECURSIVE MatchNodeLists(_)
MatchNodeLists(n) ==
    IF n = 0 THEN {<< >>}
    ELSE MatchNodeLists(n - 1)
         \cup {l \o <<x>> : l \in MatchNodeLists(n - 1), x \in MatchNodes}

MatchDocs ==
    {XmlDoc(TRUE, c, <<XmlProgramme(TvgA, Time1, Time5, Title1),
                       XmlProgramme(TvgZ, Time1, Time5, Title1)>>) :
        c \in MatchNodeLists(MaxNodes)}

InitMatch ==
    /\ channels = EpgChannels
    /\ urls = SyncUrls
    /\ epg_data = {}
    /\ filters = {}
    /\ m3u_sources = {Source(1, SrcUrl1, TRUE, DefaultM3uHours, NoTime)}
    /\ epg_sources = {Source(1, EpgUrl1, TRUE, DefaultEpgHours, NoTime)}
    /\ jobs = InitialJobs(m3u_sources, epg_sources, 0)
    /\ no_epg_rule_active = FALSE
    /\ now = 0
    /\ \E b \in MatchBodies : m3u_feed = (SrcUrl1 :> b)
    /\ \E d \in MatchDocs : xmltv_feed = (EpgUrl1 :> d)
    /\ m3u_run = NoRun
    /\ epg_run = NoEpgRun
    /\ last = NoLast
    /\ released = NotRecorded
    /\ NoJobExecuting

NextMatch ==
    \/ \E src \in epg_sources, ok \in BOOLEAN, rank \in RowOrders :
          refresh_single_epg_source(src, ok, rank)
    \/ \E src \in m3u_sources, ok \in BOOLEAN : refresh_m3u_start(src, ok)
    \/ \E rank \in RowOrders : refresh_m3u_batch(rank)
    \/ refresh_m3u_finish

SpecMatch == InitMatch /\ [][NextMatch]_vars

\* The Channels whose tvg_id is t in some letter case.
SameTvgId(chans, t) ==
    {c \in chans : Truthy(c.tvg_id) /\ Lower(c.tvg_id) = Lower(t)}

\* A step in which an EPG refresh job fetched and parsed its document.
EpgParsed ==
    /\ epg_run' # epg_run
    /\ epg_run'.phase = "ended" /\ epg_run'.fetch_ok
    /\ xmltv_feed[RowOf(epg_sources, epg_run'.source_id).url].wellformed

\* The <channel> elements of the document that step parsed.
EpgNodes == xmltv_feed[RowOf(epg_sources, epg_run'.source_id).url].channels

\* C23: an M3U entry whose tvg_id is, in some letter case, the tvg_id of a
\* Channel is resolved to such a Channel (which gets the run's start time)
\* and no Channel is created for it; an XMLTV channel element whose id is, in
\* some letter case, the tvg_id of a Channel is mapped to such a Channel.
C23_TvgIdMatchIgnoresCase ==
    [][ /\ BatchCommitted =>
              \A i \in m3u_run.next .. (m3u_run.next + BatchSize - 1) :
                 (/\ i <= Len(m3u_run.parsed)
                  /\ Truthy(m3u_run.parsed[i].attrs.tvg_id)
                  /\ SameTvgId(channels, m3u_run.parsed[i].attrs.tvg_id) # {}) =>
                     /\ \E c \in SameTvgId(channels', m3u_run.parsed[i].attrs.tvg_id) :
                           c.last_seen = m3u_run.start_time
                     /\ {x.id : x \in channels'} = {c.id : c \in channels}
        /\ EpgParsed =>
              \A i \in 1..Len(EpgNodes) :
                 (Truthy(EpgNodes[i].id) /\ SameTvgId(channels, EpgNodes[i].id) # {}) =>
                     \E c \in SameTvgId(channels, EpgNodes[i].id) :
                         c.id \in epg_run'.mapped
      ]_vars

\* The digits a text starts with.
RECURSIVE LeadingDigits(_)
LeadingDigits(s) ==
    IF Len(s) > 0 /\ IsDigitText(<<s[1]>>) THEN <<s[1]>> \o LeadingDigits(Tail(s))
    ELSE << >>

\* C24: when the first <channel> element of a document has an id that is no
\* Channel's tvg_id and a display name that starts with digits, and a Channel
\* has that number as channel_num, the EPG refresh maps that Channel.
C24_LeadingNumberMatch ==
    [][ (EpgParsed /\ Len(EpgNodes) > 0) =>
          LET node == EpgNodes[1]
              lead == IF Truthy(node.display_name)
                      THEN LeadingDigits(node.display_name) ELSE << >>
          IN  (/\ Truthy(node.id)
               /\ SameTvgId(channels, node.id) = {}
               /\ lead # << >>) =>
                  \A c \in channels :
                      c.channel_num = ToInt(lead) => c.id \in epg_run'.mapped
      ]_vars

----------------------------------------------------------------------------
(* Properties of the EPG refresh job (SpecEpg).                            *)

\* A step in which an EPG refresh job ran, and the document it was served.
EpgEnded == epg_run' # epg_run /\ epg_run'.phase = "ended"
EpgDoc == xmltv_feed[RowOf(epg_sources, epg_run'.source_id).url]

\* The <channel> element can be matched to the Channel: by its id (in any
\* letter case) or by its normalised display name.
NodeMatches(node, c) ==
    \/ Truthy(c.tvg_id) /\ Lower(node.id) = Lower(c.tvg_id)
    \/ Truthy(node.display_name)
         /\ NormalizeName(node.display_name) = NormalizeName(c.name)

\* C25: an EPG refresh leaves the set of Channel ids as it was, and every
\* EPG row it inserts carries the non-null tvg_id of a Channel of the
\* catalog that an element of the document was matched to, that element
\* being the channel of a programme: a programme of an unmatched channel
\* yields no row.
C25_EpgCreatesNoChannel ==
    [][ EpgEnded =>
          /\ {c.id : c \in channels'} = {c.id : c \in channels}
          /\ \A e \in epg_data' \ epg_data :
                \E c \in channels' :
                    /\ c.id \in epg_run'.mapped
                    /\ Truthy(c.tvg_id)
                    /\ c.tvg_id = e.channel_tvg_id
                    /\ \E i \in 1..Len(EpgDoc.programmes), k \in 1..Len(EpgDoc.channels) :
                          /\ EpgDoc.programmes[i].channel = EpgDoc.channels[k].id
                          /\ NodeMatches(EpgDoc.channels[k], RowOf(channels, c.id))
      ]_vars

\* C25 witness: a refresh of a document with a programme of an unmatched
\* element (id z) and a programme of a matched one has inserted a row, and
\* no row for z.
C25_Witness ==
    /\ epg_run.phase = "ended" /\ epg_run.outcome = "done"
    /\ \E i \in 1..Len(EpgRunDoc.programmes), k \in 1..Len(EpgRunDoc.channels) :
          /\ EpgRunDoc.programmes[i].channel = TvgZ
          /\ EpgRunDoc.channels[k].id = TvgZ
    /\ epg_run.pre.epg_data = {}
    /\ epg_data # {}
    /\ \A e \in epg_data : e.channel_tvg_id # TvgZ

\* The reading of a programme's attributes: both timestamps parsed.
Timed(p) ==
    /\ ParseXmltvDatetime(p.start).kind = "time"
    /\ ParseXmltvDatetime(p.stop).kind = "time"

\* The mapped Channels (as the step leaves them) that the element named by
\* the programme matches.
Targets(p) ==
    {c \in channels' :
        /\ c.id \in epg_run'.mapped
        /\ Truthy(c.tvg_id)
        /\ \E k \in 1..Len(EpgDoc.channels) :
              /\ EpgDoc.channels[k].id = p.channel
              /\ NodeMatches(EpgDoc.channels[k], RowOf(channels, c.id))}

\* The EPG row is the programme's, stored for the Channel.
RowIsOf(e, p, c) ==
    /\ e.channel_tvg_id = c.tvg_id
    /\ e.start_time = ParseXmltvDatetime(p.start).t
    /\ e.end_time = ParseXmltvDatetime(p.stop).t
    /\ p.title # NoNode => e.title = p.title

\* The programmes of the document that survive: matched and timed, and
\* stopping at or after limit.
Survivors(limit) ==
    {i \in 1..Len(EpgDoc.programmes) :
        /\ Targets(EpgDoc.programmes[i]) # {}
        /\ Timed(EpgDoc.programmes[i])
        /\ ParseXmltvDatetime(EpgDoc.programmes[i].stop).t >= limit}

\* The tvg_ids the mapped Channels reach.
ReachedTvgIds ==
    {c.tvg_id : c \in {x \in channels' : x.id \in epg_run'.mapped /\ Truthy(x.tvg_id)}}

C27_NoExpiredProgrammeInserted ==
    [][ EpgEnded =>
          \A e \in epg_data' \ epg_data : e.end_time > epg_run'.start_time ]_vars

\* C28: a refresh of a well-formed document that mapped a channel ends well
\* whatever its programme records are: a record with an unparsable or missing
\* timestamp or with a title without text is skipped, every other surviving
\* programme has its row, and the source's last_checked is the run's start.
C28_MalformedProgrammeSkipped ==
    [][ (EpgEnded /\ epg_run'.fetch_ok /\ EpgDoc.wellformed /\ epg_run'.mapped # {}) =>
          /\ epg_run'.outcome = "done"
          /\ \A i \in Survivors(epg_run'.start_time + 1) :
                EpgDoc.programmes[i].title # None =>
                    \A c \in Targets(EpgDoc.programmes[i]) :
                        \E e \in epg_data' : RowIsOf(e, EpgDoc.programmes[i], c)
          /\ \A x \in epg_sources' :
                x.id = epg_run'.source_id => x.last_checked = epg_run'.start_time
      ]_vars

\* C29: an EPG refresh whose fetched body is not well-formed XML ends in
\* error with the whole catalog (Channels, EPG rows, the source's
\* last_checked) and the job registry as they were, and without a run of the
\* State Synchronizer.
C29_MalformedXmlWritesNothing ==
    [][ (EpgEnded /\ epg_run'.fetch_ok /\ ~EpgDoc.wellformed) =>
          /\ DBNext = DB
          /\ jobs' = jobs
          /\ epg_run'.outcome = "error"
          /\ ~epg_run'.synced
          /\ last'.written = {}
      ]_vars

\* C29 witness: a refresh was served a malformed body on a catalog that held
\* channels, one of them without logo, and EPG rows.
C29_Witness ==
    /\ epg_run.phase = "ended" /\ epg_run.fetch_ok
    /\ ~EpgRunDoc.wellformed
    /\ epg_run.outcome = "error"
    /\ \E c \in channels : c.tvg_logo = None
    /\ epg_data # {}

----------------------------------------------------------------------------
(* Specification SpecBackfill: EPG refreshes on a catalog with a Channel   *)
(* that has no tvg_id and no logo, one whose tvg_id and logo are empty     *)
(* strings (ingested from tvg-id="" tvg-logo=""), and Channels that have   *)
(* both; the documents of SpecEpg, whose elements carry ids and icons.     *)

NameQ == <<"Q">>

BackfillChannels ==
    { Channel(1, NameFR,  None,  TvgUpperA, NameFR,  None,  NoNum, TRUE, 0),
      Channel(2, NameBbc, CatFr, None,      NameBbc, None,  NoNum, TRUE, 0),
      Channel(3, NameQ,   None,  << >>,     NameQ,   << >>, NoNum, TRUE, 0) }

BackfillNodes ==
    { XmlChannel(TvgA, << >>, Url1),
      XmlChannel(TvgQ, <<"b","-","B","c">>, Url2),
      XmlChannel(TvgZ, NameQ, Url2) }

RECURSIVE BackfillNodeLists(_)
BackfillNodeLists(n) ==
    IF n = 0 THEN {<< >>}
    ELSE BackfillNodeLists(n - 1)
         \cup {l \o <<x>> : l \in BackfillNodeLists(n - 1), x \in BackfillNodes}

BackfillDocs ==
    {XmlDoc(TRUE, c, p) : c \in BackfillNodeLists(MaxNodes), p \in XmlProgrammeLists}

InitBackfill ==
    /\ channels = BackfillChannels
    /\ urls = SyncUrls
    /\ epg_data = EpgRowsBefore
    /\ filters = {}
    /\ m3u_sources = {}
    /\ epg_sources = {Source(1, EpgUrl1, TRUE, DefaultEpgHours, NoTime)}
    /\ jobs = InitialJobs(m3u_sources, epg_sources, 0)
    /\ no_epg_rule_active \in BOOLEAN
    /\ now = 0
    /\ m3u_feed = << >>
    /\ \E d \in BackfillDocs : xmltv_feed = (EpgUrl1 :> d)
    /\ m3u_run = NoRun
    /\ epg_run = NoEpgRun
    /\ last = NoLast
    /\ released = NotRecorded
    /\ NoJobExecuting

NextBackfill ==
    \E src \in epg_sources, ok \in BOOLEAN, rank \in RowOrders :
        refresh_single_epg_source(src, ok, rank)

SpecBackfill == InitBackfill /\ [][NextBackfill]_vars

\* The elements of the document that the Channel was matched to.
MatchedNodes(c) ==
    {k \in 1..Len(EpgDoc.channels) :
        Truthy(EpgDoc.channels[k].id) /\ NodeMatches(EpgDoc.channels[k], c)}

\* C30 as stated: an EPG refresh leaves every tvg_id and every logo that is
\* not null as it was, gives a mapped Channel that had none the id (and icon)
\* of an element matched to it, and these backfills stay when the programme
\* phase fails or aborts.
C30_BackfillOnlyNull ==
    [][ EpgEnded =>
          \A c \in channels :
              LET x == RowOf(channels', c.id)
              IN  /\ c.tvg_id # None => x.tvg_id = c.tvg_id
                  /\ c.tvg_logo # None => x.tvg_logo = c.tvg_logo
                  /\ (c.id \in epg_run'.mapped /\ c.tvg_id = None) =>
                        \E k \in MatchedNodes(c) : x.tvg_id = EpgDoc.channels[k].id
      ]_vars

\* C30 amended: the same with "holds no value" (NULL or the empty string) in
\* the place of "null": a tvg_id or logo that holds a value is never changed;
\* a mapped Channel without tvg_id gets the id of an element matched to it,
\* one without logo the icon of such an element if any carries one; no other
\* field but enabled changes; and when the programme phase then fails, the
\* backfills are in the store while the EPG rows are as they were.
C30_BackfillOnlyEmpty ==
    [][ EpgEnded =>
          /\ \A c \in channels :
              LET x == RowOf(channels', c.id)
              IN  /\ Truthy(c.tvg_id) => x.tvg_id = c.tvg_id
                  /\ Truthy(c.tvg_logo) => x.tvg_logo = c.tvg_logo
                  /\ [x EXCEPT !.tvg_id = c.tvg_id, !.tvg_logo = c.tvg_logo,
                               !.enabled = c.enabled] = c
                  /\ (c.id \in epg_run'.mapped /\ ~Truthy(c.tvg_id)) =>
                        \E k \in MatchedNodes(c) : x.tvg_id = EpgDoc.channels[k].id
                  /\ (c.id \in epg_run'.mapped /\ ~Truthy(c.tvg_logo)) =>
                        \/ \E k \in MatchedNodes(c) : x.tvg_logo = EpgDoc.channels[k].icon
                        \/ /\ x.tvg_logo = c.tvg_logo
                           /\ \E k \in MatchedNodes(c) : ~Truthy(EpgDoc.channels[k].icon)
                  /\ c.id \notin epg_run'.mapped =>
                        x.tvg_id = c.tvg_id /\ x.tvg_logo = c.tvg_logo
          /\ (epg_run'.outcome = "error" /\ EpgDoc.wellformed) => epg_data' = epg_data
      ]_vars

\* C30 witness: the programme phase of a refresh failed after a Channel had
\* been given a tvg_id and a logo: both are in the store, the EPG rows are
\* the rows from before the run, and a Channel that had a tvg_id kept it.
C30_Witness ==
    /\ epg_run.phase = "ended" /\ epg_run.outcome = "error"
    /\ \E c \in epg_run.pre.channels :
          /\ c.id \in epg_run.mapped
          /\ ~Truthy(c.tvg_id) /\ ~Truthy(c.tvg_logo)
          /\ Truthy(RowOf(channels, c.id).tvg_id)
          /\ Truthy(RowOf(channels, c.id).tvg_logo)
    /\ \E c \in epg_run.pre.channels :
          c.id \in epg_run.mapped /\ Truthy(c.tvg_id)
    /\ epg_data = epg_run.pre.epg_data
    /\ epg_data # {}

----------------------------------------------------------------------------
(* Specification SpecFrame: the two ingestion jobs on a catalog in which   *)
(* the admin has disabled a channel by hand (toggle_channel), with an      *)
(* enabled filter that matches the name of an existing and of an ingested  *)
(* channel.                                                                *)

\* The catalog of SpecEpg after toggle_channel(3).
FrameChannels ==
    {IF c.id = 3 THEN [c EXCEPT !.enabled = FALSE] ELSE c : c \in EpgChannels}

FrameDocs ==
    { XmlDoc(FALSE, << >>, << >>),
      XmlDoc(TRUE, <<XmlChannel(TvgA, << >>, Url1)>>,
                   <<XmlProgramme(TvgA, Time1, Time5, Title1)>>),
      XmlDoc(TRUE, <<XmlChannel(TvgQ, <<"b","-","B","c">>, Url2)>>, << >>) }

InitFrame ==
    /\ channels \in {EpgChannels, FrameChannels}
    /\ urls = SyncUrls
    /\ epg_data = {}
    /\ filters = {[id |-> 1, pattern |-> PatFR, enabled |-> TRUE]}
    /\ m3u_sources = {Source(1, SrcUrl1, TRUE, DefaultM3uHours, NoTime)}
    /\ epg_sources = {Source(1, EpgUrl1, TRUE, DefaultEpgHours, NoTime)}
    /\ jobs = InitialJobs(m3u_sources, epg_sources, 0)
    /\ no_epg_rule_active \in BOOLEAN
    /\ now = 0
    /\ \E b \in MatchBodies : m3u_feed = (SrcUrl1 :> b)
    /\ \E d \in FrameDocs : xmltv_feed = (EpgUrl1 :> d)
    /\ m3u_run = NoRun
    /\ epg_run = NoEpgRun
    /\ last = NoLast
    /\ released = NotRecorded
    /\ NoJobExecuting

NextFrame ==
    \/ \E src \in epg_sources, ok \in BOOLEAN, rank \in RowOrders :
          refresh_single_epg_source(src, ok, rank)
    \/ \E src \in m3u_sources, ok \in BOOLEAN : refresh_m3u_start(src, ok)
    \/ \E rank \in RowOrders : refresh_m3u_batch(rank)
    \/ refresh_m3u_finish

SpecFrame == InitFrame /\ [][NextFrame]_vars

\* The step is a step of an ingestion job.
IngestionStep == m3u_run' # m3u_run \/ epg_run' # epg_run

----------------------------------------------------------------------------
(* Specification SpecRegex: the filter form posted with patterns that      *)
(* compile and with patterns that do not, on the catalog of SpecFilters.   *)

\* "(b": missing ), unterminated subpattern.  "*b": nothing to repeat.
PatOpen == <<"(","b">>
PatStar == <<"*","b">>

PostedPatterns == {PatFR, PatBbc, PatOpen, PatStar}

InitRegex ==
    /\ channels = SyncChannels
    /\ urls = SyncUrls
    /\ epg_data = {}
    /\ filters = {}
    /\ m3u_sources = {}
    /\ epg_sources = {}
    /\ jobs = {DailyCleanupJob}
    /\ no_epg_rule_active \in BOOLEAN
    /\ now = 0
    /\ m3u_feed = << >>
    /\ xmltv_feed = << >>
    /\ m3u_run = NoRun
    /\ epg_run = NoEpgRun
    /\ last = NoLast
    /\ released = NotRecorded
    /\ NoJobExecuting

NextRegex ==
    \/ \E p \in PostedPatterns, e \in BOOLEAN : manage_filters(p, e)
    \/ \E i \in 1..MaxFilterId : toggle_filter(i)
    \/ \E c \in channels : toggle_channel(c.id)
    \/ \E j \in jobs : synchronize_channel_states(j)

SpecRegex == InitRegex /\ [][NextRegex]_vars

\* C32: posting a filter whose pattern does not compile adds no Filter row,
\* changes no Channel and submits no job; every stored pattern compiles, and
\* no Synchronizer run ends in the error that pattern compilation raises.
C32_InvalidPatternRejected ==
    /\ [](\A f \in filters : ReCompiles(f.pattern))
    /\ [](last.op = "synchronize_channel_states" => last.outcome = "done")
    /\ [][ (last'.op = "manage_filters" /\ ~ReCompiles(last'.arg))
             => /\ last'.outcome = "invalid"
                /\ UNCHANGED <<filters, channels, urls, epg_data, jobs>> ]_vars

\* A pattern that does not compile has just been refused while an enabled
\* filter blocks a channel and its synchronization job is still pending.
C32_Witness ==
    /\ last.op = "manage_filters"
    /\ last.arg \in {PatOpen, PatStar}
    /\ last.outcome = "invalid"
    /\ \E f \in filters : f.enabled
    /\ \E c \in channels : c.enabled /\ MatchesEnabledFilter(c)
    /\ \E j \in jobs : j.func = "apply_all_filters_job"


----------------------------------------------------------------------------
(* Output routes: routes/main.py                                           *)

\* str(n) of a natural number.
RECURSIVE Str(_)
Str(n) ==
    IF n < 10 THEN <<Digits[n + 1]>>
    ELSE Str(n \div 10) \o <<Digits[(n % 10) + 1]>>

\* xml.sax.saxutils.escape
RECURSIVE Escape(_)
Escape(s) ==
    IF Len(s) = 0 THEN << >>
    ELSE (CASE Head(s) = "&" -> <<"&","a","m","p",";">>
            [] Head(s) = "<" -> <<"&","l","t",";">>
            [] Head(s) = ">" -> <<"&","g","t",";">>
            [] OTHER -> <<Head(s)>>) \o Escape(Tail(s))

\* The characters of the model's texts in code-point order: SQLite compares
\* text columns byte by byte (no collation is declared on a column).
CodePoints == <<" ", "&", "(", ")", "*", "+", "-", "/", "0", "1", "2", "3", "4",
                "5", "6", "7", "8", "9", ":", "<", ">">> \o UpperCase
              \o <<"^", "_">> \o LowerCase

CodePoint(c) == CHOOSE i \in 1..Len(CodePoints) : CodePoints[i] = c

TextLess(s, t) ==
    \E i \in 1..Len(t) :
        /\ i <= Len(s) + 1
        /\ \A j \in 1..(i - 1) : s[j] = t[j]
        /\ (i = Len(s) + 1 \/ CodePoint(s[i]) < CodePoint(t[i]))

\* ORDER BY on a nullable text column: NULL sorts before every text.
ColumnLess(a, b) ==
    IF a = None THEN b # None ELSE b # None /\ TextLess(a, b)

\* An ordering that looks at the name only.
OrderKeyLessNameOnly(c, d) == ColumnLess(c.name, d.name)

\* order_by(Channel.category, Channel.name)
OrderKeyLess(c, d) ==
    \/ ColumnLess(c.category, d.category)
    \/ c.category = d.category /\ ColumnLess(c.name, d.name)

\* The lists that hold every element of S once.
SeqsOf(S) ==
    {s \in [1..Cardinality(S) -> S] : \A i, j \in 1..Cardinality(S) : s[i] = s[j] => i = j}

\* A playlist that lists the disabled channels too.
PlaylistChannelsAll(db) == db.channels

\* filter(Channel.enabled == True)
PlaylistChannels(db) == {c \in db.channels : c.enabled}

\* The result lists the query of line 20 can return: the rows in the order
\* of the keys, rows with equal keys in any order.
PlaylistQuery(db) ==
    {s \in SeqsOf(PlaylistChannels(db)) :
        \A i, j \in 1..Len(s) : i < j => ~OrderKeyLess(s[j], s[i])}

\* channel.urls: the rows of the channel in the order urank lists them.
ChannelUrls(c, urank) ==
    LET Mine(u) == u.channel_id = c.id IN SelectSeq(urank, Mine)

\* Lines 33-42: the #EXTINF line of a channel.
ExtinfLine(c) ==
    Line("extinf",
         Attrs(IF Truthy(c.tvg_id) THEN c.tvg_id ELSE None,
               IF Truthy(c.tvg_name) THEN c.tvg_name ELSE c.name,
               c.name,
               IF Truthy(c.category) THEN c.category ELSE None,
               IF Truthy(c.tvg_logo) THEN c.tvg_logo ELSE None,
               IF c.channel_num # NoNum THEN Str(c.channel_num) ELSE None),
         << >>)

RECURSIVE PairLines(_, _)
PairLines(c, us) ==
    IF Len(us) = 0 THEN << >>
    ELSE <<ExtinfLine(c), Line("url", NoAttrs, Head(us).url)>> \o PairLines(c, Tail(us))

RECURSIVE PlaylistLines(_, _)
PlaylistLines(rows, urank) ==
    IF Len(rows) = 0 THEN << >>
    ELSE PairLines(Head(rows), ChannelUrls(Head(rows), urank))
         \o PlaylistLines(Tail(rows), urank)

\* url_for('main.get_epg_xml'): the text of the header line is its url-tvg.
EpgXmlUrl == <<"/","e","p","g",".","x","m","l">>

\* GET /playlist.m3u.  outcome is the list of the lines of the response.
get_m3u_playlist ==
    /\ \E rows \in PlaylistQuery(DB), urank \in SeqsOf(urls) :
          last' = Done("get_m3u_playlist", now,
                       <<Line("header", NoAttrs, EpgXmlUrl)>> \o PlaylistLines(rows, urank),
                       {})
    /\ UNCHANGED <<catalog_vars, feed_vars, m3u_sources, epg_sources, jobs, run_vars,
                   running, now>>

\* Channel.query.filter(Channel.enabled == True, Channel.tvg_id != None)
EpgXmlChannels(db) == {c \in db.channels : c.enabled /\ c.tvg_id # None}

\* A document that keeps the programmes that have ended.
EpgXmlProgrammesAll(db, t) ==
    {e \in db.epg_data :
        e.channel_tvg_id \in {c.tvg_id : c \in EpgXmlChannels(db)}}

\* The rows of epg_query before the ordering.
EpgXmlProgrammes(db, t) ==
    {e \in db.epg_data :
        /\ e.channel_tvg_id \in {c.tvg_id : c \in EpgXmlChannels(db)}
        /\ e.end_time > t}

\* order_by(EpgData.start_time)
EpgXmlQuery(db, t) ==
    {s \in SeqsOf(EpgXmlProgrammes(db, t)) :
        \A i, j \in 1..Len(s) : i < j => s[i].start_time <= s[j].start_time}

\* Lines 67-75.
ChannelElement(c) ==
    XmlChannel(Escape(c.tvg_id), Escape(c.name),
               IF Truthy(c.tvg_logo) THEN Escape(c.tvg_logo) ELSE None)

\* Lines 91-103.  strftime('%Y%m%d%H%M%S %z') of a stored (naive) datetime
\* ends with the blank: %z is empty.
ProgrammeElement(e) ==
    XmlProgramme(Escape(e.channel_tvg_id),
                 Str(e.start_time) \o <<" ">>, Str(e.end_time) \o <<" ">>,
                 Escape(e.title))

\* GET /epg.xml.  outcome is the document, arg the time of generation.
get_epg_xml ==
    /\ \E chs \in SeqsOf(EpgXmlChannels(DB)), progs \in EpgXmlQuery(DB, now) :
          last' = Done("get_epg_xml", now,
                       XmlDoc(TRUE,
                              [i \in 1..Len(chs) |-> ChannelElement(chs[i])],
                              [i \in 1..Len(progs) |-> ProgrammeElement(progs[i])]),
                       {})
    /\ UNCHANGED <<catalog_vars, feed_vars, m3u_sources, epg_sources, jobs, run_vars,
                   running, now>>

----------------------------------------------------------------------------
(* Specification SpecOutput: the two output routes on a catalog whose      *)
(* channels are switched on and off by hand while the clock advances.      *)

NameAmp == <<"R","&","B">>
CatX    == <<"X">>

\* Channels 1 and 4 have one category and one name; channel 2 has no
\* category and no tvg_id; channel 3 has the empty tvg_id; channel 4 has no
\* url; channel 1 has two.
OutputChannels ==
    { Channel(1, NameBbc, CatFr, TvgA,  None,    Url1, 7,     TRUE, 0),
      Channel(2, NameX,   None,  None,  NameX,   None, NoNum, TRUE, 0),
      Channel(3, NameAmp, CatX,  << >>, NameAmp, None, NoNum, TRUE, 0),
      Channel(4, NameBbc, CatFr, TvgB,  NameBbc, None, NoNum, TRUE, 0) }

OutputUrls ==
    { UrlRow(1, Url1, 1, 0), UrlRow(2, Url2, 1, 0), UrlRow(3, Url1, 3, 0),
      UrlRow(4, Url2, 2, 0) }

OutputEpgRows ==
    { EpgRow(1, TvgA, Title1, 0, 1), EpgRow(2, TvgA, NameAmp, 1, 2),
      EpgRow(3, TvgB, Title1, 0, 3), EpgRow(4, TvgZ, Title1, 0, 3) }

InitOutput ==
    /\ channels \in {{[c EXCEPT !.enabled = c.id \notin off] : c \in OutputChannels}
                       : off \in SUBSET {1, 3}}
    /\ urls = OutputUrls
    /\ epg_data = OutputEpgRows
    /\ filters = {}
    /\ m3u_sources = {}
    /\ epg_sources = {}
    /\ jobs = {DailyCleanupJob}
    /\ no_epg_rule_active = FALSE
    /\ now = 0
    /\ m3u_feed = << >>
    /\ xmltv_feed = << >>
    /\ m3u_run = NoRun
    /\ epg_run = NoEpgRun
    /\ last = NoLast
    /\ released = NotRecorded
    /\ NoJobExecuting

NextOutput ==
    \/ \E c \in channels : toggle_channel(c.id)
    \/ tick
    \/ get_m3u_playlist
    \/ get_epg_xml

SpecOutput == InitOutput /\ [][NextOutput]_vars

\* The one-to-one assignments of the places 1..n to the rows of S.
Assignments(n, S) ==
    IF n # Cardinality(S) THEN {} ELSE SeqsOf(S)

\* The (enabled Channel, Url of that Channel) pairs.
PlaylistPairs ==
    {<<c, u>> : c \in {x \in channels : x.enabled}, u \in urls} \cap
    {p \in channels \X urls : p[2].channel_id = p[1].id}

\* C33: the playlist is the header followed by one EXTINF line and one url
\* line for each pair of an enabled Channel and one of its Urls, and by
\* nothing else; the pairs stand in the order of category, then name.
C33_PlaylistPairsOrdered ==
    last.op = "get_m3u_playlist" =>
        LET body == last.outcome
            n    == (Len(body) - 1) \div 2
        IN  /\ Len(body) = 1 + 2 * n
            /\ body[1].kind = "header"
            /\ \E f \in Assignments(n, PlaylistPairs) :
                  /\ \A k \in 1..n :
                        /\ body[2 * k] = ExtinfLine(f[k][1])
                        /\ body[2 * k + 1] = Line("url", NoAttrs, f[k][2].url)
                  /\ \A k \in 1..(n - 1) : ~OrderKeyLess(f[k + 1][1], f[k][1])

\* A playlist of three pairs made while a channel with a url is disabled
\* and an enabled channel has no url; the channel without a category leads.
C33_Witness ==
    /\ last.op = "get_m3u_playlist"
    /\ Len(last.outcome) = 7
    /\ \E c \in channels : ~c.enabled /\ \E u \in urls : u.channel_id = c.id
    /\ \E c \in channels : c.enabled /\ ~\E u \in urls : u.channel_id = c.id
    /\ last.outcome[2].attrs.group_title = None
    /\ last.outcome[4].attrs.group_title = CatFr


\* The Channels the EPG output is about: enabled, tvg_id not null.
ListedChannels == {c \in channels : c.enabled /\ c.tvg_id # None}

\* C34: the EPG document made at time t holds one channel element for each
\* enabled Channel with a non-null tvg_id and no other, and one programme
\* element for each EpgData row of such a Channel's tvg_id whose end_time is
\* later than t and no other.
C34_EpgOutputListsLiveProgrammes ==
    last.op = "get_epg_xml" =>
        LET doc  == last.outcome
            t    == last.arg
            live == {e \in epg_data :
                        /\ \E c \in ListedChannels : c.tvg_id = e.channel_tvg_id
                        /\ e.end_time > t}
        IN  /\ \E f \in Assignments(Len(doc.channels), ListedChannels) :
                  \A k \in 1..Len(doc.channels) : doc.channels[k] = ChannelElement(f[k])
            /\ \E g \in Assignments(Len(doc.programmes), live) :
                  \A k \in 1..Len(doc.programmes) : doc.programmes[k] = ProgrammeElement(g[k])
            /\ \A p \in {doc.programmes[k] : k \in 1..Len(doc.programmes)} :
                  /\ ToInt(Strip(p.stop)) > t
                  /\ \E c \in channels : c.enabled /\ Escape(c.tvg_id) = p.channel

\* A document made at time 1 while the Channel with tvg_id b is disabled:
\* it holds the programme of a that ends at 2, not the one that ended at 1,
\* and the channel with the empty tvg_id.
C34_Witness ==
    /\ last.op = "get_epg_xml"
    /\ last.arg = 1
    /\ \E c \in channels : ~c.enabled /\ c.tvg_id = TvgB
    /\ Len(last.outcome.programmes) = 1
    /\ last.outcome.programmes[1].stop = <<"2", " ">>
    /\ \E k \in 1..Len(last.outcome.channels) : last.outcome.channels[k].id = << >>


----------------------------------------------------------------------------
(* The daily jobs of the registry (SpecSources).                           *)

\* C35: once the scheduler is initialized the registry holds the daily
\* cleanup job and, when the disable-channels-without-EPG setting is on, a
\* daily (cron) job that runs disable_channels_without_epg; the Source
\* routes remove neither.
C35_DailyJobsRegistered ==
    /\ DailyCleanupJob \in jobs
    /\ no_epg_rule_active =>
          \E j \in jobs : j.trigger = "cron" /\ j.func = "disable_channels_without_epg"


----------------------------------------------------------------------------
(* Specification SpecParse: one M3U source whose body is the header line   *)
(* followed by any lines of six kinds: two EXTINF lines, a comment, a      *)
(* blank line and two url lines.                                           *)

\* Lines after the header line.
MaxLines == 4

ParseAlphabet ==
    {ExtInf(EntryA1), ExtInf(EntryA5), CommentLine, BlankLine, UrlLine(Url1), UrlLine(Url2)}

ParseBodies ==
    UNION {[1..n -> ParseAlphabet] : n \in 0..MaxLines}

InitParse ==
    /\ channels = {}
    /\ urls = {}
    /\ epg_data = {}
    /\ filters = {}
    /\ m3u_sources = {Source(1, SrcUrl1, TRUE, DefaultM3uHours, NoTime)}
    /\ epg_sources = {}
    /\ jobs = InitialJobs(m3u_sources, epg_sources, 0)
    /\ no_epg_rule_active = FALSE
    /\ now = 0
    /\ \E b \in ParseBodies : m3u_feed = (SrcUrl1 :> (<<HeaderLine>> \o b))
    /\ xmltv_feed = << >>
    /\ m3u_run = NoRun
    /\ epg_run = NoEpgRun
    /\ last = NoLast
    /\ released = NotRecorded
    /\ NoJobExecuting

NextParse ==
    \/ \E src \in m3u_sources : refresh_m3u_start(src, TRUE)
    \/ \E rank \in RowOrders : refresh_m3u_batch(rank)
    \/ refresh_m3u_finish

SpecParse == InitParse /\ [][NextParse]_vars

\* The EXTINF line that is pending at line i: the nearest line before i that
\* is an EXTINF line or a url line, when it is an EXTINF line (0 when there
\* is none: the lines between are comment, blank and header lines).
PendingAt(lines, i) ==
    LET prev == {j \in 1..(i - 1) : lines[j].kind \in {"extinf", "badextinf", "url"}}
        j    == SetMax(prev)
    IN  IF prev # {} /\ lines[j].kind = "extinf" THEN j ELSE 0

\* The url lines that have a pending EXTINF line, each with that line.
Consumed(lines) ==
    {p \in (1..Len(lines)) \X (1..Len(lines)) :
        lines[p[2]].kind = "url" /\ p[1] = PendingAt(lines, p[2])}

\* C36: what the parser yields is what the url lines with a pending EXTINF
\* line give, each with the attributes of that line: an EXTINF line is used
\* by at most one url line; an EXTINF line followed by another before a url
\* line, and a url line without a pending EXTINF line, add no key and no url
\* to the parse and no Channel and no Url row to the catalog; comment and
\* blank lines between an EXTINF line and its url line do not part them.
C36_ExtinfConsumedOnce ==
    RunParsed =>
        LET lines  == RunBody
            pairs  == Consumed(lines)
            parsed == m3u_run.parsed
            Item(k) == parsed[CHOOSE i \in 1..Len(parsed) : parsed[i].key = k]
        IN  /\ \A p \in pairs, q \in pairs : p[1] = q[1] => p[2] = q[2]
            /\ {parsed[i].key : i \in 1..Len(parsed)} =
               {ChannelKey(lines[p[1]].attrs) : p \in pairs}
            /\ \A i \in 1..Len(parsed) :
                  parsed[i].urls =
                  {lines[p[2]].text :
                      p \in {q \in pairs : ChannelKey(lines[q[1]].attrs) = parsed[i].key}}
            /\ RunDone =>
                  /\ {c.name : c \in channels} =
                     {ResolvedName(lines[p[1]].attrs) : p \in pairs}
                  /\ {u.url : u \in urls} = {lines[p[2]].text : p \in pairs}

\* A finished run of a body with an EXTINF line that the next EXTINF line
\* orphans, a comment between that one and its url line, and no other url:
\* one Channel with one Url.
C36_Witness ==
    /\ RunDone
    /\ RunBody = <<HeaderLine, ExtInf(EntryA5), ExtInf(EntryA1), CommentLine, UrlLine(Url1)>>
    /\ Cardinality(channels) = 1
    /\ \A c \in channels : c.tvg_id = TvgA
    /\ {u.url : u \in urls} = {Url1}

\* The parse of a body whose url lines both precede the only EXTINF line, or
\* follow a url line that has used it: the second url is not in the parse.
C36_WitnessStray ==
    /\ RunParsed
    /\ RunBody = <<HeaderLine, ExtInf(EntryA1), BlankLine, UrlLine(Url1), UrlLine(Url2)>>
    /\ Len(m3u_run.parsed) = 1
    /\ m3u_run.parsed[1].urls = {Url1}


----------------------------------------------------------------------------
(* Specification SpecRetry: the executor of SpecExecutor with refresh runs *)
(* that fail in each of the ways the jobs handle.                          *)

\* How a refresh run fails: the download raises (lines 173-175, 302-304),
\* the body has no #EXTM3U header or is not XML (179-181, 308), or a commit
\* raises (the except clauses roll back and log).
FailureKinds == {"download_failed", "format_error", "exception"}

\* A job that submits itself again when it has failed.
AfterFailedRunRequeued(js, r) ==
    AddJob(js, Job("retry", r.job.sid, r.func, "date", 0))

\* The registry after a failed run: the job functions return (or raise into
\* the executor, which logs) without a call to the scheduler.
AfterFailedRun(js, r) == js

\* A running refresh ends in a failure.  The session is rolled back.
refresh_job_fails(r, how) ==
    /\ r \in running
    /\ running' = running \ {r}
    /\ jobs' = AfterFailedRun(jobs, r)
    /\ m3u_sources' = (IF how = "download_failed"
                       THEN AfterDownloadFailed(DB, r.job.sid, now)
                       ELSE DB).m3u_sources
    /\ last' = Done(r.func, r.job.sid, how, {})
    /\ UNCHANGED <<catalog_vars, feed_vars, epg_sources, now, run_vars>>

NextRetry ==
    \/ \E x \in m3u_sources : force_refresh_source(x.id)
    \/ \E x \in epg_sources : force_refresh_epg_source(x.id)
    \/ \E x \in m3u_sources, h \in IntervalChoices : update_source_interval(x.id, h)
    \/ tick
    \/ \E j \in jobs : fire_interval_job(j)
    \/ \E j \in jobs : fire_date_job(j)
    \/ \E r \in running, how \in FailureKinds : refresh_job_fails(r, how)

SpecRetry == InitExecutor /\ [][NextRetry]_vars

\* The id of the interval job of the source a run refreshes.
IntervalJobIdOf(r) ==
    JobId(IF r.func = "refresh_single_m3u_source" THEN "m3u_refresh" ELSE "epg_refresh",
          r.job.sid)

\* The step ends the run r in a failure.
RunFailed(r, run, run2, lst) ==
    /\ r \in run
    /\ r \notin run2
    /\ lst.op = r.func
    /\ lst.outcome \in FailureKinds

\* C37: a refresh run that fails leaves the registry as it was: no job is
\* added (no retry is queued) and none is removed, no run is started, and the
\* source's interval job is registered with the fire time it had; that fire
\* time was set past the clock when the job fired, whatever the run did.
C37_FailedRunKeepsSchedule ==
    /\ [][ \A r \in running :
              RunFailed(r, running, running', last') =>
                 /\ jobs' = jobs
                 /\ running' = running \ {r}
                 /\ \E j \in jobs' : j.id = IntervalJobIdOf(r) /\ j.trigger = "interval" ]_vars
    /\ [][ last'.op = "fire_interval_job" /\ last' # last =>
              \E j \in jobs' : /\ j.id = last'.arg
                               /\ j.trigger = "interval"
                               /\ j.next_run_time > now ]_vars

\* A refresh run has just failed after the clock advanced; the source's
\* hourly interval job is armed for the hour to come, and no other run and
\* no one-shot job is left.
C37_Witness ==
    /\ last.op = "refresh_single_m3u_source"
    /\ last.outcome = "exception"
    /\ now > 1
    /\ running = {}
    /\ \A j \in jobs : j.trigger # "date"
    /\ \E j \in jobs : /\ j.id = JobId("m3u_refresh", last.arg)
                       /\ j.hours = 1
                       /\ j.next_run_time = now + 1


----------------------------------------------------------------------------
(* The manual refresh of a disabled source (SpecSources).                  *)

\* The sources a force-refresh route looks up for the operation op.
SourcesOf(op, m3u, epg) == IF op = "force_refresh_source" THEN m3u ELSE epg

ForceRefreshOps == {"force_refresh_source", "force_refresh_epg_source"}

\* The one-shot refresh jobs.
ManualRefreshJobs(js) ==
    {j \in js : j.trigger = "date" /\ j.func \in {"refresh_single_m3u_source",
                                                  "refresh_single_epg_source"}}

\* C40: a force refresh of a disabled M3U or EPG source adds no job and
\* changes no row; every step that puts a one-shot refresh job into the
\* registry is a force refresh of a source that is enabled.
C40_NoManualRefreshOfDisabledSource ==
    /\ [][ (/\ last'.op \in ForceRefreshOps
            /\ \E x \in SourcesOf(last'.op, m3u_sources, epg_sources) :
                  x.id = last'.arg /\ ~x.enabled)
           => /\ last'.outcome = "disabled"
              /\ UNCHANGED <<jobs, catalog_vars, m3u_sources, epg_sources, running>> ]_vars
    /\ [][ \A j \in ManualRefreshJobs(jobs') \ ManualRefreshJobs(jobs) :
              /\ last'.op \in ForceRefreshOps
              /\ \E x \in SourcesOf(last'.op, m3u_sources, epg_sources) :
                    x.id = j.id.sid /\ x.id = last'.arg /\ x.enabled ]_vars

\* A force refresh of a disabled M3U source has just been refused while the
\* one-shot job of an earlier refresh of the EPG source is in the registry.
C40_Witness ==
    /\ last.op = "force_refresh_source"
    /\ last.outcome = "disabled"
    /\ \E x \in m3u_sources : x.id = last.arg /\ ~x.enabled
    /\ ManualRefreshJobs(jobs) # {}
    /\ \A j \in ManualRefreshJobs(jobs) : j.func = "refresh_single_epg_source"


----------------------------------------------------------------------------
(* What the cleanup job deletes (SpecCleanup).                             *)

\* C38: a cleanup run deletes a Url only when its last_seen is before the
\* cutoff (the clock less the retention), and a Channel only when no Url of
\* it is left after that and its own last_seen is before the cutoff; it
\* changes no other row, and every Url that is left has its Channel.  (The
\* steps of a refresh job change m3u_run, a tick changes the clock.)
C38_CleanupDeletesOnlyStale ==
    [][ (last'.op = "scheduled_cleanup_job" /\ m3u_run' = m3u_run /\ now' = now) =>
          LET cutoff == now - Retention
          IN  /\ urls' \subseteq urls
              /\ channels' \subseteq channels
              /\ \A u \in urls \ urls' : u.last_seen # NoTime /\ u.last_seen < cutoff
              /\ \A c \in channels \ channels' :
                    /\ c.last_seen # NoTime /\ c.last_seen < cutoff
                    /\ ~\E u \in urls' : u.channel_id = c.id
              /\ \A u \in urls' : \E c \in channels' : c.id = u.channel_id ]_vars

\* A cleanup run has deleted a Channel with its Url and has kept a Channel
\* with a Url seen at the cutoff or later.
C38_Witness ==
    /\ last.op = "scheduled_cleanup_job"
    /\ last.written # {}
    /\ last.written \subseteq last.arg
    /\ \E u \in urls : u.last_seen >= now - Retention
    /\ \E c \in channels : c.last_seen >= now - Retention


----------------------------------------------------------------------------
(* Specification SpecAtomic: Synchronizer runs in which a step may raise,  *)
(* at the end of an M3U refresh and as the job of the filter routes.       *)

\* Where a Synchronizer run raises: compiling the patterns (lines 97-98),
\* reading the rows (102-108), the first bulk update (140), the second
\* (144), the commit (147); "none" when it does not.
SyncSteps == {"none", "compile", "read", "disable", "enable", "commit"}

\* A Synchronizer whose bulk updates are committed one by one.
SynchronizeRaisingUnrolled(db, rule, at) ==
    IF at = "none" THEN SynchronizeChannelStatesLogic(db, rule)
    ELSE IF at \in {"enable", "commit"}
    THEN [db EXCEPT !.channels =
             {IF c.id \in ChannelsToDisable(db, rule) THEN [c EXCEPT !.enabled = FALSE]
              ELSE c : c \in db.channels}]
    ELSE db

\* The Synchronizer when its step at raises: except Exception rolls the
\* session back (lines 152-154) and returns.
SynchronizeRaising(db, rule, at) ==
    IF at = "none" THEN SynchronizeChannelStatesLogic(db, rule) ELSE db

\* Line 288, with a Synchronizer that may raise: the job ends all the same.
refresh_m3u_sync_raises(at) ==
    /\ m3u_run.phase = "stamped"
    /\ channels' = SynchronizeRaising(DB, no_epg_rule_active, at).channels
    /\ last' = Done("refresh_single_m3u_source", m3u_run.source_id,
                    IF at = "none" THEN "done" ELSE "sync_error",
                    IF at = "none" THEN SyncWritten(DB, no_epg_rule_active) ELSE {})
    /\ m3u_run' = [m3u_run EXCEPT !.phase = "done", !.synced = (at = "none")]
    /\ UNCHANGED <<urls, epg_data, filters, m3u_sources, epg_sources, jobs,
                   feed_vars, now, epg_run, released, exec_vars>>

\* The one-shot job of the filter routes, with a Synchronizer that may raise.
synchronize_channel_states_raises(j, at) ==
    /\ j \in jobs
    /\ j.trigger = "date"
    /\ j.func \in {"apply_all_filters_job", "disable_channels_without_epg"}
    /\ jobs' = jobs \ {j}
    /\ channels' = SynchronizeRaising(DB, no_epg_rule_active, at).channels
    /\ released' = Visit(released)
    /\ last' = Done("synchronize_channel_states", j.id.kind,
                    IF at = "none" THEN "done" ELSE "sync_error",
                    IF at = "none" THEN SyncWritten(DB, no_epg_rule_active) ELSE {})
    /\ UNCHANGED <<urls, epg_data, filters, m3u_sources, epg_sources,
                   no_epg_rule_active, now, m3u_feed, xmltv_feed, exec_vars,
                   epg_run, m3u_run>>

AtomicBodies ==
    { <<HeaderLine>> \o Entry(EntryA1, Url1),
      <<HeaderLine>> \o Entry(EntryA5, Url2) \o Entry(EntryA1, Url1) }

InitAtomic ==
    /\ channels \in {EpgChannels, FrameChannels}
    /\ urls = SyncUrls
    /\ epg_data = {}
    /\ filters = {[id |-> 1, pattern |-> PatFR, enabled |-> TRUE]}
    /\ m3u_sources = {Source(1, SrcUrl1, TRUE, DefaultM3uHours, NoTime)}
    /\ epg_sources = {}
    /\ jobs = InitialJobs(m3u_sources, epg_sources, 0)
    /\ no_epg_rule_active = FALSE
    /\ now = 0
    /\ \E b \in AtomicBodies : m3u_feed = (SrcUrl1 :> b)
    /\ xmltv_feed = << >>
    /\ m3u_run = NoRun
    /\ epg_run = NoEpgRun
    /\ last = NoLast
    /\ released = NotRecorded
    /\ NoJobExecuting

NextAtomic ==
    \/ \E src \in m3u_sources : refresh_m3u_start(src, TRUE)
    \/ \E rank \in RowOrders : refresh_m3u_batch(rank)
    \/ refresh_m3u_stamp
    \/ \E at \in SyncSteps : refresh_m3u_sync_raises(at)
    \/ apply_all_filters
    \/ \E j \in jobs, at \in SyncSteps : synchronize_channel_states_raises(j, at)

SpecAtomic == InitAtomic /\ [][NextAtomic]_vars

\* The step is the Synchronizer run that ends an M3U refresh, or the run of
\* the one-shot synchronization job.
SyncRunStep ==
    \/ m3u_run.phase = "stamped" /\ m3u_run'.phase = "done"
    \/ last'.op = "synchronize_channel_states" /\ jobs' # jobs

\* C39: a Synchronizer run changes the enabled flags all together or not at
\* all: when no step raises every Channel gets the computed flag, when a
\* step raises no Channel is changed; it changes nothing else, and the M3U
\* refresh that called it ends with the rows and the last_checked it had
\* committed.
C39_SyncAllOrNothing ==
    [][ SyncRunStep =>
          /\ \/ /\ last'.outcome = "done"
                /\ \A c \in channels :
                      RowOf(channels', c.id) =
                      [c EXCEPT !.enabled = ShouldBeEnabled(DB, no_epg_rule_active, c)]
             \/ /\ last'.outcome = "sync_error"
                /\ channels' = channels
          /\ {c.id : c \in channels'} = {c.id : c \in channels}
          /\ UNCHANGED <<urls, epg_data, filters, m3u_sources, epg_sources>>
          /\ m3u_run' # m3u_run =>
                /\ m3u_run'.phase = "done"
                /\ RowOf(m3u_sources', m3u_run.source_id).last_checked = m3u_run.start_time
                /\ \A x \in channels' : x.id \notin {c.id : c \in m3u_run.pre.channels}
                                           => x.last_seen = m3u_run.start_time ]_vars

\* An M3U refresh has ended though its Synchronizer run raised: the Channel
\* it created is stored and last_checked is written, while one Channel is
\* still to be disabled and another still to be enabled.
C39_Witness ==
    /\ m3u_run.phase = "done"
    /\ last.op = "refresh_single_m3u_source"
    /\ last.outcome = "sync_error"
    /\ \E x \in channels : x.id \notin {c.id : c \in m3u_run.pre.channels}
    /\ RowOf(m3u_sources, m3u_run.source_id).last_checked = m3u_run.start_time
    /\ \E c \in channels : c.enabled /\ ~ShouldBeEnabled(DB, no_epg_rule_active, c)
    /\ \E c \in channels : ~c.enabled /\ ShouldBeEnabled(DB, no_epg_rule_active, c)

============================================================================
